---- MODULE Spec2Model ----
(***************************************************************************)
(* A model of the Agenthedge coordination core: the portfolio ledger       *)
(* (portfolio/store.py), the in-memory message bus (agents/messaging.py)   *)
(* and the agent runtime with its kill switch (agents/runtime.py and the   *)
(* stages under agents/impl).                                              *)
(*                                                                         *)
(* Python floats are modelled as exact rationals [n, d] in lowest terms    *)
(* with d > 0: quantities and prices are drawn from integers, and only     *)
(* average_cost and realized_pnl leave the integers (through the division  *)
(* in apply_fill).                                                         *)
(***************************************************************************)
EXTENDS Integers, Sequences, FiniteSets, TLC

VARIABLES
    cash,           \* PortfolioStore._state["cash"]
    realized_pnl,   \* PortfolioStore._state["realized_pnl"]
    positions,      \* PortfolioStore._state["positions"]: symbol -> [quantity, average_cost]
    lastOp,         \* the last ledger call and its arguments (history variable)
    fillSum,        \* sum of quantity * price over the successful apply_fill calls (history variable)
    loaded,         \* TRUE once bulk_load has been called (history variable)
    nOps,           \* number of ledger calls made so far
    history,        \* MessageBus._history: the retained envelopes, oldest first
    max_history,    \* the maxlen of MessageBus._history
    subs,           \* MessageBus._subs: the ids of the registered subscriptions, in insertion order
    subObjs,        \* every Subscription object ever created, by id (snapshots refer to them)
    nextEnv,        \* the number of the next envelope (stands for its uuid)
    log,            \* what the bus, the stages and the runtime did, in order (history variable)
    nPub,           \* number of publish calls made from outside the bus
    nUnsub,         \* number of unsubscribe calls made from outside the bus
    inflight,       \* the publish call another thread is inside: <<>> or <<its loop's state>>
    kill_switch_reason,   \* AgentRuntime._kill_switch_reason
    kill_switch_trigger,  \* AgentRuntime._kill_switch_trigger
    kill_subscription,    \* AgentRuntime._kill_subscription: a subscription id, or 0 for None
    stop_event,           \* AgentRuntime._stop_event.is_set()
    tick_count,           \* AgentRuntime._tick_count
    thread,               \* AgentRuntime._thread: "none", "alive" or "ended"
    agents,               \* AgentRuntime._agents: the ids of the current stage objects, in tick order
    agentObjs,            \* every stage object ever created, by id (subscriptions refer to them)
    tracker,              \* the PerformanceTracker shared by the stages
    nextId,               \* the number of the next uuid4 drawn by a stage
    nTick,                \* number of tick requests made so far
    nExt,                 \* number of events published from outside the runtime
    nLife                 \* number of start / stop / bootstrap calls made so far

ledgerVars == <<cash, realized_pnl, positions, lastOp, fillSum, loaded, nOps>>

busVars == <<history, max_history, subs, subObjs, nextEnv, log, nPub, nUnsub, inflight>>

runtimeVars == <<kill_switch_reason, kill_switch_trigger, kill_subscription, stop_event,
                 tick_count, thread, agents, agentObjs, tracker, nextId, nTick, nExt, nLife>>

vars == <<cash, realized_pnl, positions, lastOp, fillSum, loaded, nOps,
          history, max_history, subs, subObjs, nextEnv, log, nPub, nUnsub, inflight,
          kill_switch_reason, kill_switch_trigger, kill_subscription, stop_event,
          tick_count, thread, agents, agentObjs, tracker, nextId, nTick, nExt, nLife>>

----------------------------------------------------------------------------
(* Bounds and inputs *)

MaxOps == 3

MaxPublishes == 2

MaxSubs == 2

MaxUnsubs == 1

MaxHistory == 3

InitialCash == 100000

Symbols == {"SPY", "QQQ"}

FillQuantities == {-10, -5, 0, 5, 10}

FillPrices == {-100, 0, 100, 110}

LoadQuantities == {-5, 0, 5}

LoadCash == {50000}

----------------------------------------------------------------------------
(* Exact arithmetic standing for the float arithmetic of the code *)

Abs(x) == IF x < 0 THEN -x ELSE x

Min(a, b) == IF a <= b THEN a ELSE b

Max(a, b) == IF a >= b THEN a ELSE b

RECURSIVE GCD(_, _)
GCD(a, b) == IF b = 0 THEN a ELSE GCD(b, a % b)

\* n/d in lowest terms with a positive denominator, g being gcd(|n|, |d|)
Reduced(n, d, g) ==
    IF n = 0 THEN [n |-> 0, d |-> 1]
    ELSE IF d < 0 THEN [n |-> (-n) \div g, d |-> (-d) \div g]
    ELSE [n |-> n \div g, d |-> d \div g]

Rat(n, d) == Reduced(n, d, GCD(Abs(n), Abs(d)))

RInt(i) == [n |-> i, d |-> 1]

RNeg(x) == [n |-> -x.n, d |-> x.d]

RAbs(x) == [n |-> Abs(x.n), d |-> x.d]

LCM(a, b) == (a \div GCD(a, b)) * b

\* x + y over the common denominator l
SumOver(x, y, l) == Rat(x.n * (l \div x.d) + y.n * (l \div y.d), l)

RAdd(x, y) == SumOver(x, y, LCM(x.d, y.d))

RSub(x, y) == RAdd(x, RNeg(y))

\* x * y with the common factors g1 of x.n and y.d, g2 of y.n and x.d taken out
ProductOver(x, y, g1, g2) ==
    Rat((x.n \div g1) * (y.n \div g2), (x.d \div g2) * (y.d \div g1))

RMul(x, y) == ProductOver(x, y, GCD(Abs(x.n), y.d), GCD(Abs(y.n), x.d))

RDiv(x, y) ==
    IF y.n = 0 THEN Rat(x.n * y.d, 0)
    ELSE RMul(x, [n |-> IF y.n < 0 THEN -y.d ELSE y.d, d |-> Abs(y.n)])

RLt(x, y) == RSub(x, y).n < 0

RLe(x, y) == RSub(x, y).n <= 0

RMin(x, y) == IF RLe(x, y) THEN x ELSE y

RMax(x, y) == IF RLe(y, x) THEN x ELSE y

\* math.floor of a float; TLA+'s \div already rounds towards minus infinity
RFloor(x) == x.n \div x.d

\* the integer nearest to f + r/d (0 <= r < d), a tie going to the even neighbour
Nearest(f, r, d) ==
    IF 2 * r < d THEN f
    ELSE IF 2 * r > d THEN f + 1
    ELSE IF f % 2 = 0 THEN f ELSE f + 1

\* round(x) of a float
RoundHalfEven(x) == Nearest(x.n \div x.d, x.n % x.d, x.d)

\* round(x, 4)
Round4(x) == Rat(RoundHalfEven(RMul(x, RInt(10000))), 10000)

RECURSIVE RSum(_)
\* sum(...) over a sequence of floats
RSum(q) == IF q = <<>> THEN RInt(0) ELSE RAdd(Head(q), RSum(Tail(q)))

----------------------------------------------------------------------------
(* Python values carried by event payloads.  A payload is a function from  *)
(* field names to values; the tag t tells the Python type.                 *)

None == [t |-> "none"]

Str(s) == [t |-> "str", s |-> s]

Num(r) == [t |-> "num", n |-> r.n, d |-> r.d]

Dict(m) == [t |-> "dict", m |-> m]

List(l) == [t |-> "list", l |-> l]

\* str(uuid.uuid4()): a fresh non-empty string
Uuid(i) == Str(ToString(i))

IsStr(v) == v.t = "str"

\* isinstance(value, (int, float))
IsNum(v) == v.t = "num"

NumOf(v) == [n |-> v.n, d |-> v.d]

\* bool(value)
Truthy(v) ==
    CASE v.t = "none" -> FALSE
      [] v.t = "str"  -> v.s # ""
      [] v.t = "num"  -> v.n # 0
      [] v.t = "dict" -> DOMAIN v.m # {}
      [] v.t = "list" -> v.l # <<>>

\* payload.get(key)
Get(payload, key) == IF key \in DOMAIN payload THEN payload[key] ELSE None

\* a or b
Or(a, b) == IF Truthy(a) THEN a ELSE b

\* str.upper() on the symbols the inputs use
Upper(s) ==
    CASE s = "spy" -> "SPY"
      [] s = "qqq" -> "QQQ"
      [] s = "tsla" -> "TSLA"
      [] OTHER -> s

\* str(value) for a value that is not None
StrOf(v) ==
    CASE v.t = "str" -> v.s
      [] v.t = "num" -> ToString(v.n)
      [] OTHER -> "<object>"

\* _as_float of risk.py, compliance.py and execution.py: Num(...) or None
AsFloat(v) == IF IsNum(v) THEN v ELSE None

\* _as_float of agents/impl/quant.py, which also parses the strings float() reads
\* (of the strings the inputs use, "100")
ParseFloat(v) ==
    IF IsNum(v) THEN v
    ELSE IF IsStr(v) /\ v.s = "100" THEN Num(RInt(100))
    ELSE None

\* _coerce_symbol of quant.py
CoerceSymbol(v) == IF IsStr(v) /\ v.s # "" THEN Str(Upper(v.s)) ELSE None

----------------------------------------------------------------------------
(* The portfolio ledger: portfolio/store.py *)

\* positions.setdefault(symbol, {"quantity": 0.0, "average_cost": float(price)})
ExistingPosition(pos, symbol, price) ==
    IF symbol \in DOMAIN pos THEN pos[symbol]
    ELSE [quantity |-> 0, average_cost |-> RInt(price)]

IsReducingAnySign(existing_qty, quantity) == existing_qty # 0

\* the guard of the realisation branch, store.py line 126
IsReducing(existing_qty, quantity) ==
    existing_qty # 0 /\ ((existing_qty > 0) # (quantity > 0))

ClosingQtyNoMin(existing_qty, quantity) == Abs(quantity)

ClosingQty(existing_qty, quantity) == Min(Abs(existing_qty), Abs(quantity))

\* realized, store.py lines 125-129
RealizedOnFill(existing_qty, existing_cost, quantity, price) ==
    IF IsReducing(existing_qty, quantity)
    THEN RMul(RSub(RInt(price), existing_cost),
              RInt(ClosingQty(existing_qty, quantity) * (IF existing_qty > 0 THEN 1 ELSE -1)))
    ELSE RInt(0)

\* the position table after lines 131-141
PositionsAfterFill(pos, symbol, quantity, price) ==
    LET existing      == ExistingPosition(pos, symbol, price)
        existing_qty  == existing.quantity
        existing_cost == existing.average_cost
        new_qty       == existing_qty + quantity
        total_cost    == RAdd(RMul(existing_cost, RInt(existing_qty)), RInt(price * quantity))
        extends       == (existing_qty >= 0 /\ quantity > 0) \/ (existing_qty <= 0 /\ quantity < 0)
        entry         == IF extends
                         THEN [quantity |-> new_qty,
                               average_cost |-> RDiv(total_cost, RInt(new_qty))]
                         ELSE [quantity |-> new_qty, average_cost |-> existing_cost]
    IN  IF new_qty = 0
        THEN [s \in (DOMAIN pos) \ {symbol} |-> pos[s]]
        ELSE [s \in DOMAIN pos \cup {symbol} |-> IF s = symbol THEN entry ELSE pos[s]]

\* the two checks at the head of apply_fill, lines 114-117
FillRaisesPriceOnly(quantity, price) == price <= 0

FillRaises(quantity, price) == quantity = 0 \/ price <= 0

\* PortfolioStore.apply_fill on a ledger value [cash, realized_pnl, positions];
\* a raising call leaves the ledger as it is
LedgerAfterFill(ledger, symbol, quantity, price) ==
    IF FillRaises(quantity, price) THEN ledger
    ELSE LET existing == ExistingPosition(ledger.positions, symbol, price)
         IN  [cash         |-> ledger.cash - quantity * price,
              realized_pnl |-> RAdd(ledger.realized_pnl,
                                    RealizedOnFill(existing.quantity, existing.average_cost,
                                                   quantity, price)),
              positions    |-> PositionsAfterFill(ledger.positions, symbol, quantity, price)]

Ledger == [cash |-> cash, realized_pnl |-> realized_pnl, positions |-> positions]

\* what a call of apply_fill leaves in the ledger
Filled(symbol, quantity, price) ==
    /\ LET after == LedgerAfterFill(Ledger, symbol, quantity, price)
       IN  /\ cash' = after.cash
           /\ realized_pnl' = after.realized_pnl
           /\ positions' = after.positions
    /\ lastOp' = [op |-> "apply_fill", symbol |-> symbol, quantity |-> quantity,
                  price |-> price, raised |-> FillRaises(quantity, price)]
    /\ fillSum' = IF FillRaises(quantity, price) THEN fillSum ELSE fillSum + quantity * price
    /\ nOps' = nOps + 1
    /\ UNCHANGED loaded

ApplyFill(symbol, quantity, price) ==
    /\ nOps < MaxOps
    /\ Filled(symbol, quantity, price)
    /\ UNCHANGED <<busVars, runtimeVars>>

\* PortfolioStore.bulk_load: load maps each loaded symbol to a Position, newCash is
\* the cash argument (<<>> stands for None)
BulkLoad(load, newCash) ==
    /\ nOps < MaxOps
    /\ cash' = IF newCash = <<>> THEN cash ELSE newCash[1]
    /\ positions' = load
    /\ lastOp' = [op |-> "bulk_load", symbol |-> "", quantity |-> 0, price |-> 0,
                  raised |-> FALSE]
    /\ loaded' = TRUE
    /\ nOps' = nOps + 1
    /\ UNCHANGED <<realized_pnl, fillSum>>
    /\ UNCHANGED <<busVars, runtimeVars>>

LoadChoices ==
    UNION {[S -> [quantity : LoadQuantities, average_cost : {RInt(100)}]] : S \in SUBSET Symbols}

LedgerInit ==
    /\ cash = InitialCash
    /\ realized_pnl = RInt(0)
    /\ positions = <<>>
    /\ lastOp = [op |-> "init", symbol |-> "", quantity |-> 0, price |-> 0, raised |-> FALSE]
    /\ fillSum = 0
    /\ loaded = FALSE
    /\ nOps = 0

LedgerNext ==
    \/ \E symbol \in Symbols, quantity \in FillQuantities, price \in FillPrices :
          ApplyFill(symbol, quantity, price)
    \/ \E load \in LoadChoices, newCash \in {<<>>} \cup {<<c>> : c \in LoadCash} :
          BulkLoad(load, newCash)

----------------------------------------------------------------------------
(* The message bus: agents/messaging.py *)

Topics == {"alpha", "beta"}

\* Subscription.topics: None, or a sequence of topic names
NoTopics == [none |-> TRUE, names |-> {}]

TopicList(names) == [none |-> FALSE, names |-> names]

TopicFilters == {NoTopics, TopicList({"*"}), TopicList({"alpha"})}

ReplayChoices == {0, 1, 2}

\* The handlers a caller registers: one that only receives, one that publishes
\* another topic from inside the fan-out, one that unsubscribes the subscription
\* registered right after its own, one that raises.
RecordHandler == [kind |-> "record", topic |-> ""]

PublishHandler(topic) == [kind |-> "publish", topic |-> topic]

UnsubscribeNextHandler == [kind |-> "unsubscribe_next", topic |-> ""]

RaiseHandler == [kind |-> "raise", topic |-> ""]

\* a handler that publishes is registered for the topics it does not publish
\* (the no-self-topic-republish rule the bus relies on)
HandlersFor(topics) ==
    {RecordHandler, UnsubscribeNextHandler, RaiseHandler}
        \cup (IF topics = TopicList({"alpha"}) THEN {PublishHandler("beta")} ELSE {})

LogEntry(t, sub, env, x) == [t |-> t, sub |-> sub, env |-> env, x |-> x]

\* a matches that takes "*" for the name of a topic
MatchesListedOnly(sub, topic) ==
    IF ~sub.active THEN FALSE
    ELSE IF sub.topics.none THEN TRUE
    ELSE topic \in sub.topics.names

MatchesIgnoringActive(sub, topic) ==
    sub.topics.none \/ "*" \in sub.topics.names \/ topic \in sub.topics.names

\* Subscription.matches
Matches(sub, topic) ==
    IF ~sub.active THEN FALSE
    ELSE IF sub.topics.none THEN TRUE
    ELSE IF "*" \in sub.topics.names THEN TRUE
    ELSE topic \in sub.topics.names

\* deque(maxlen=max_history).append
AppendHistory(h, maxlen, env) ==
    IF maxlen = 0 THEN h
    ELSE IF Len(h) >= maxlen THEN Append(Tail(h), env)
    ELSE Append(h, env)

\* history[-n:] for n > 0
LastN(h, n) == IF Len(h) <= n THEN h ELSE SubSeq(h, Len(h) - n + 1, Len(h))

\* the limits callers pass to history
HistoryLimits == {0, 1, 2, 100}

\* the index (from 0) at which the slice [-limit:] of a list of n items starts:
\* -limit counts from the end when it is negative and from the front otherwise
SliceStart(n, limit) ==
    IF -limit < 0 THEN Max(n - limit, 0) ELSE Min(-limit, n)

\* MessageBus.history: list(self._history)[-limit:]
BusHistory(h, limit) == SubSeq(h, SliceStart(Len(h), limit) + 1, Len(h))

\* the subscriptions of ids that a caller would expect to be served for a topic:
\* registered, active, wildcard or naming the topic (history variable's content)
RefServed(w, ids, topic) ==
    SelectSeq(ids, LAMBDA i :
        /\ w.subObjs[i].active
        /\ \/ w.subObjs[i].topics.none
           \/ w.subObjs[i].topics.names \cap {"*", topic} # {})

\* MessageBus.unsubscribe
BusUnsubscribe(w, id) ==
    LET w1 == [w EXCEPT !.log = Append(@, LogEntry("unsub", id, 0, <<>>))]
    IN  IF \E i \in 1..Len(w.subs) : w.subs[i] = id
        THEN [w1 EXCEPT !.subs = SelectSeq(@, LAMBDA x : x # id),
                        !.subObjs[id].active = FALSE]
        ELSE w1

RECURSIVE BusPublish(_, _, _)
RECURSIVE FanOut(_, _, _, _)
RECURSIVE Invoke(_, _, _)

\* the entries of the snapshot whose topic filter admits the topic: the filter of
\* a subscription never changes, so the loop passes over every other entry
Addressed(w, snapshot, topic) ==
    SelectSeq(snapshot, LAMBDA id :
        \/ w.subObjs[id].topics.none
        \/ w.subObjs[id].topics.names \cap {"*", topic} # {})

\* the return of a call that did not raise (history variable's content)
Returned(w, t, sub, env) ==
    IF w.raised THEN w ELSE [w EXCEPT !.log = Append(@, LogEntry(t, sub, env, <<>>))]

RECURSIVE FanOutIsolating(_, _, _, _)
\* a loop that catches what a handler raises and goes on to the next subscriber
FanOutIsolating(w, snapshot, i, env) ==
    IF i > Len(snapshot) THEN Returned([w EXCEPT !.raised = FALSE], "ret", 0, env.id)
    ELSE IF Matches(w.subObjs[snapshot[i]], env.topic)
         THEN FanOutIsolating([Invoke(w, snapshot[i], env) EXCEPT !.raised = FALSE],
                              snapshot, i + 1, env)
         ELSE FanOutIsolating(w, snapshot, i + 1, env)

\* the loop of MessageBus.publish, lines 74-76, from entry i of the snapshot on,
\* and the return of publish; an exception of a handler leaves both
FanOut(w, snapshot, i, env) ==
    IF w.raised \/ i > Len(snapshot) THEN Returned(w, "ret", 0, env.id)
    ELSE IF Matches(w.subObjs[snapshot[i]], env.topic)
         THEN FanOut(Invoke(w, snapshot[i], env), snapshot, i + 1, env)
         ELSE FanOut(w, snapshot, i + 1, env)

\* publish, lines 69-72: the envelope is retained before anyone is served
Retained(w, env) ==
    [w EXCEPT !.history = AppendHistory(@, w.max_history, env),
              !.nextEnv = @ + 1,
              !.log = Append(@, LogEntry("pub", 0, env.id, RefServed(w, w.subs, env.topic)))]

\* Envelope.create: the ids are the positions in the order of publication
NewEnvelope(w, topic, payload) == [id |-> w.nextEnv, topic |-> topic, payload |-> payload]

\* MessageBus.publish
BusPublish(w, topic, payload) ==
    FanOut(Retained(w, NewEnvelope(w, topic, payload)), Addressed(w, w.subs, topic), 1,
           NewEnvelope(w, topic, payload))

RECURSIVE Replay(_, _, _, _)
\* the replay loop of MessageBus.subscribe, lines 91-93
Replay(w, id, envelopes, i) ==
    IF w.raised \/ i > Len(envelopes) THEN w
    ELSE IF Matches(w.subObjs[id], envelopes[i].topic)
         THEN Replay(Invoke(w, id, envelopes[i]), id, envelopes, i + 1)
         ELSE Replay(w, id, envelopes, i + 1)

\* the envelopes a caller would expect the replay to deliver: the last replay_last
\* of the retained envelopes that match the filter (history variable's content)
RefReplay(w, topics, replay_last) ==
    LET matching == SelectSeq(w.history, LAMBDA e :
                        topics.none \/ topics.names \cap {"*", e.topic} # {})
    IN  [m |-> Len(matching),
         ids |-> IF replay_last > 0
                 THEN [i \in 1..Len(LastN(matching, replay_last)) |->
                          LastN(matching, replay_last)[i].id]
                 ELSE <<>>]

\* subscribe, lines 84-89: the new subscription is registered
Registered(w, sub, replay_last) ==
    [w EXCEPT !.subObjs = Append(@, sub),
              !.subs = Append(@, sub.id),
              !.log = Append(@, LogEntry("sub", sub.id, replay_last,
                                         RefReplay(w, sub.topics, replay_last)))]

\* subscribe, lines 90-94: the replay to the new subscription
Replayed(w, id, replay_last) ==
    Returned(IF replay_last > 0 THEN Replay(w, id, LastN(w.history, replay_last), 1) ELSE w,
             "subret", id, 0)

\* MessageBus.subscribe
BusSubscribe(w, handler, topics, replay_last) ==
    Replayed(Registered(w,
                        [id |-> Len(w.subObjs) + 1, topics |-> topics, handler |-> handler,
                         active |-> TRUE],
                        replay_last),
             Len(w.subObjs) + 1, replay_last)

\* the objects a call tree works on: the bus, the ledger, the runtime's switch,
\* the stage objects and the tracker; raised tells that an exception is unwinding
World ==
    [history |-> history, max_history |-> max_history, subs |-> subs, subObjs |-> subObjs,
     nextEnv |-> nextEnv, log |-> log, raised |-> FALSE,
     cash |-> cash, realized_pnl |-> realized_pnl, positions |-> positions,
     kill_switch_reason |-> kill_switch_reason, kill_switch_trigger |-> kill_switch_trigger,
     stop_event |-> stop_event, agentObjs |-> agentObjs, tracker |-> tracker,
     nextId |-> nextId, market |-> <<>>]

\* the bus a call leaves behind
Committed(w) ==
    /\ history' = w.history
    /\ subs' = w.subs
    /\ subObjs' = w.subObjs
    /\ nextEnv' = w.nextEnv
    /\ log' = w.log

\* the state a call leaves behind when no other thread is inside publish
Commit(w) ==
    /\ Committed(w)
    /\ UNCHANGED <<max_history, inflight>>

Publish(topic) ==
    /\ nPub < MaxPublishes
    /\ Commit(BusPublish(World, topic, <<>>))
    /\ nPub' = nPub + 1
    /\ UNCHANGED <<nUnsub, ledgerVars, runtimeVars>>

Subscribe(handler, topics, replay_last) ==
    /\ Len(subObjs) < MaxSubs
    /\ Commit(BusSubscribe(World, handler, topics, replay_last))
    /\ UNCHANGED <<nPub, nUnsub, ledgerVars, runtimeVars>>

Unsubscribe(id) ==
    /\ nUnsub < MaxUnsubs
    /\ Commit(BusUnsubscribe(World, id))
    /\ nUnsub' = nUnsub + 1
    /\ UNCHANGED <<nPub, ledgerVars, runtimeVars>>

\* MessageBus.__init__
BusInit(maxlen) ==
    /\ history = <<>>
    /\ max_history = maxlen
    /\ subs = <<>>
    /\ subObjs = <<>>
    /\ nextEnv = 1
    /\ log = <<>>
    /\ nPub = 0
    /\ nUnsub = 0
    /\ inflight = <<>>

BusNext ==
    \/ \E topic \in Topics : Publish(topic)
    \/ \E topics \in TopicFilters, replay_last \in ReplayChoices :
          \E handler \in HandlersFor(topics) : Subscribe(handler, topics, replay_last)
    \/ \E id \in 1..Len(subObjs) : Unsubscribe(id)

\* The bus used from two threads.  The lock of the bus covers lines 71-73 of
\* publish and the whole of unsubscribe, and no handler call: a second thread
\* inside publish advances one statement of the loop of lines 74-76 at a time,
\* and the calls of the first thread fall between its statements.

\* the handlers the two-thread callers register
ThreadHandlers == {RecordHandler, UnsubscribeNextHandler}

\* the loop of publish: its envelope, its copy of the subscriber list, the entry
\* it is at, and whether sub.matches(topic) of line 75 has said yes for the entry
Flight(env, snapshot) == [env |-> env, snapshot |-> snapshot, i |-> 1, matched |-> FALSE]

\* publish on the second thread, lines 62-73
ThreadPublish(topic) ==
    /\ inflight = <<>>
    /\ nPub < MaxPublishes
    /\ Committed(Retained(World, NewEnvelope(World, topic, <<>>)))
    /\ inflight' = <<Flight(NewEnvelope(World, topic, <<>>), subs)>>
    /\ nPub' = nPub + 1
    /\ UNCHANGED <<max_history, nUnsub, ledgerVars, runtimeVars>>

\* line 75 on the second thread: if sub.matches(topic)
ThreadMatches ==
    /\ inflight # <<>>
    /\ ~inflight[1].matched
    /\ inflight[1].i <= Len(inflight[1].snapshot)
    /\ inflight' =
          <<IF Matches(subObjs[inflight[1].snapshot[inflight[1].i]], inflight[1].env.topic)
            THEN [inflight[1] EXCEPT !.matched = TRUE]
            ELSE [inflight[1] EXCEPT !.i = @ + 1]>>
    /\ UNCHANGED <<history, max_history, subs, subObjs, nextEnv, log, nPub, nUnsub,
                   ledgerVars, runtimeVars>>

\* the loop after the handler call of line 76 returned or raised
AfterHandler(w) ==
    /\ Committed(w)
    /\ inflight' = IF w.raised THEN <<>>
                   ELSE <<[inflight[1] EXCEPT !.i = @ + 1, !.matched = FALSE]>>

\* line 76 on the second thread: sub.handler(envelope)
ThreadInvoke ==
    /\ inflight # <<>>
    /\ inflight[1].matched
    /\ AfterHandler(Invoke(World, inflight[1].snapshot[inflight[1].i], inflight[1].env))
    /\ UNCHANGED <<max_history, nPub, nUnsub, ledgerVars, runtimeVars>>

\* line 77 on the second thread: the loop is over and publish returns
ThreadReturn ==
    /\ inflight # <<>>
    /\ inflight[1].i > Len(inflight[1].snapshot)
    /\ Committed(Returned(World, "ret", 0, inflight[1].env.id))
    /\ inflight' = <<>>
    /\ UNCHANGED <<max_history, nPub, nUnsub, ledgerVars, runtimeVars>>

\* subscribe and unsubscribe on the first thread (no replay: replay_last = 0),
\* publish on the second
ThreadsNext ==
    \/ \E topic \in Topics : ThreadPublish(topic)
    \/ ThreadMatches
    \/ ThreadInvoke
    \/ ThreadReturn
    \/ \E topics \in TopicFilters, handler \in ThreadHandlers : Subscribe(handler, topics, 0)
    \/ \E id \in 1..Len(subObjs) : Unsubscribe(id)

\* subscribe with a replay on one thread while another thread publishes.  The
\* lock of the bus covers lines 88-89 of subscribe (the registration and the copy
\* of the history) and lines 72-73 of publish; the replay loop of lines 90-93 and
\* the loop of publish run outside it, one pass at a time.  inflight holds the
\* publish and the subscribe that are under way.

MaxRacePublishes == 3

MaxRaceSubs == 1

NoCalls == [pub |-> <<>>, sub |-> <<>>]

\* the replay loop: the new subscription, its copy of the history, replay_last and
\* the entry of history[-replay_last:] the loop is at
ReplayLoop(id, copy, replay_last) ==
    [id |-> id, copy |-> copy, replay_last |-> replay_last, i |-> 1]

\* history[-replay_last:] of line 91; the loop is not entered for replay_last = 0
ToReplay(copy, replay_last) == IF replay_last > 0 THEN LastN(copy, replay_last) ELSE <<>>

\* publish, lines 62-73
RacePublish(topic) ==
    /\ inflight.pub = <<>>
    /\ nPub < MaxRacePublishes
    /\ Committed(Retained(World, NewEnvelope(World, topic, <<>>)))
    /\ inflight' = [inflight EXCEPT !.pub = <<Flight(NewEnvelope(World, topic, <<>>), subs)>>]
    /\ nPub' = nPub + 1
    /\ UNCHANGED <<max_history, nUnsub, ledgerVars, runtimeVars>>

\* one pass of the loop of publish, lines 74-76
RaceFanOut ==
    /\ inflight.pub # <<>>
    /\ inflight.pub[1].i <= Len(inflight.pub[1].snapshot)
    /\ Committed(IF Matches(subObjs[inflight.pub[1].snapshot[inflight.pub[1].i]],
                            inflight.pub[1].env.topic)
                 THEN Invoke(World, inflight.pub[1].snapshot[inflight.pub[1].i],
                             inflight.pub[1].env)
                 ELSE World)
    /\ inflight' = [inflight EXCEPT !.pub[1].i = @ + 1]
    /\ UNCHANGED <<max_history, nPub, nUnsub, ledgerVars, runtimeVars>>

\* publish returns, line 77
RaceReturn ==
    /\ inflight.pub # <<>>
    /\ inflight.pub[1].i > Len(inflight.pub[1].snapshot)
    /\ Committed(Returned(World, "ret", 0, inflight.pub[1].env.id))
    /\ inflight' = [inflight EXCEPT !.pub = <<>>]
    /\ UNCHANGED <<max_history, nPub, nUnsub, ledgerVars, runtimeVars>>

\* subscribe, lines 86-89
RaceSubscribe(topics, replay_last) ==
    /\ inflight.sub = <<>>
    /\ Len(subObjs) < MaxRaceSubs
    /\ Committed(Registered(World,
                            [id |-> Len(subObjs) + 1, topics |-> topics,
                             handler |-> RecordHandler, active |-> TRUE],
                            replay_last))
    /\ inflight' = [inflight EXCEPT
                       !.sub = <<ReplayLoop(Len(subObjs) + 1, history, replay_last)>>]
    /\ UNCHANGED <<max_history, nPub, nUnsub, ledgerVars, runtimeVars>>

\* a pass of the replay loop that reads the history of the bus as it is now
RaceReplayUncopied ==
    /\ inflight.sub # <<>>
    /\ inflight.sub[1].i <= Len(ToReplay(history, inflight.sub[1].replay_last))
    /\ Committed(IF Matches(subObjs[inflight.sub[1].id],
                            ToReplay(history, inflight.sub[1].replay_last)[inflight.sub[1].i].topic)
                 THEN Invoke(World, inflight.sub[1].id,
                             ToReplay(history, inflight.sub[1].replay_last)[inflight.sub[1].i])
                 ELSE World)
    /\ inflight' = [inflight EXCEPT !.sub[1].i = @ + 1]
    /\ UNCHANGED <<max_history, nPub, nUnsub, ledgerVars, runtimeVars>>

\* one pass of the replay loop of subscribe, lines 91-93
RaceReplay ==
    /\ inflight.sub # <<>>
    /\ inflight.sub[1].i <= Len(ToReplay(inflight.sub[1].copy, inflight.sub[1].replay_last))
    /\ Committed(IF Matches(subObjs[inflight.sub[1].id],
                            ToReplay(inflight.sub[1].copy,
                                     inflight.sub[1].replay_last)[inflight.sub[1].i].topic)
                 THEN Invoke(World, inflight.sub[1].id,
                             ToReplay(inflight.sub[1].copy,
                                      inflight.sub[1].replay_last)[inflight.sub[1].i])
                 ELSE World)
    /\ inflight' = [inflight EXCEPT !.sub[1].i = @ + 1]
    /\ UNCHANGED <<max_history, nPub, nUnsub, ledgerVars, runtimeVars>>

\* subscribe returns, line 94
RaceSubscribed ==
    /\ inflight.sub # <<>>
    /\ inflight.sub[1].i > Len(ToReplay(inflight.sub[1].copy, inflight.sub[1].replay_last))
    /\ Committed(Returned(World, "subret", inflight.sub[1].id, 0))
    /\ inflight' = [inflight EXCEPT !.sub = <<>>]
    /\ UNCHANGED <<max_history, nPub, nUnsub, ledgerVars, runtimeVars>>

RaceNext ==
    \/ \E topic \in Topics : RacePublish(topic)
    \/ RaceFanOut
    \/ RaceReturn
    \/ \E topics \in TopicFilters, replay_last \in ReplayChoices :
          RaceSubscribe(topics, replay_last)
    \/ RaceReplay
    \/ RaceSubscribed

----------------------------------------------------------------------------
(* The stages: agents/impl.  Metrics and logger calls are left out (they   *)
(* keep no state a stage reads); timestamps and run ids are left out of    *)
(* the payloads (no handler reads them).  An audit or alert call is an     *)
(* entry of the log whose sub field names the stage object (0: runtime).   *)

Logged(w, t, who, env, x) == [w EXCEPT !.log = Append(@, LogEntry(t, who, env, x))]

\* BaseAgent.audit
AuditCall(w, a, action, payload) ==
    Logged(w, "audit", a, 0, [action |-> action, payload |-> payload])

\* BaseAgent.alert
AlertCall(w, a, action, payload, severity) ==
    Logged(w, "alert", a, 0, [action |-> action, payload |-> payload, severity |-> severity])

\* an exception leaving the code of stage object a
Raise(w, a, what) == [Logged(w, "raise", a, 0, what) EXCEPT !.raised = TRUE]

\* PortfolioStore.snapshot
PortfolioSnapshot(w) == [cash |-> w.cash, realized_pnl |-> w.realized_pnl, positions |-> w.positions]

\* the quantity held in a symbol, 0.0 when there is no position
HeldQty(pos, symbol) == IF symbol \in DOMAIN pos THEN pos[symbol].quantity ELSE 0

StrategyNames == <<"momentum", "value", "macro">>

NoDecision == [raises |-> FALSE, decision |-> <<>>]

ZeroDivision == [raises |-> TRUE, decision |-> <<>>]

Decision(strategy, symbol, action, qty, confidence, rationale) ==
    [raises |-> FALSE,
     decision |-> <<[strategy |-> strategy, symbol |-> symbol, action |-> action,
                     quantity |-> IF action = "buy" THEN qty ELSE -qty,
                     confidence |-> confidence, rationale |-> rationale]>>]

\* max(1.0, payload.portfolio.cash * target_alloc_pct)
Allocation(cash_, target_alloc_pct) == RMax(RInt(1), RMul(RInt(cash_), target_alloc_pct))

\* int(allocation // payload.price)
Quantity(cash_, target_alloc_pct, price) ==
    RFloor(RDiv(Allocation(cash_, target_alloc_pct), price))

\* if quantity <= 0: return None; return StrategyDecision(...)
Sized(strategy, symbol, action, qty, confidence, rationale) ==
    IF qty <= 0 THEN NoDecision
    ELSE Decision(strategy, symbol, action, qty, confidence, rationale)

\* MomentumStrategy.generate once the action is chosen
MomentumAct(symbol, price, action, change_pct, portfolio) ==
    IF action = "" THEN NoDecision
    ELSE IF price.n = 0 THEN ZeroDivision
    ELSE Sized("momentum", symbol, action, Quantity(portfolio.cash, Rat(4, 100), price),
               RMin(RInt(1), RDiv(RAbs(change_pct), RInt(10))), "momentum_change_pct")

\* MomentumStrategy.generate once change_pct is computed
MomentumOn(symbol, price, change_pct, portfolio) ==
    MomentumAct(symbol, price,
                IF RLe(Rat(1, 4), change_pct) THEN "buy"
                ELSE IF RLe(change_pct, Rat(-1, 4)) THEN "sell"
                ELSE "",
                change_pct, portfolio)

\* MomentumStrategy.generate once prev_close is read
MomentumFrom(symbol, price, prev_close, portfolio) ==
    IF ~IsNum(prev_close) \/ prev_close.n <= 0 THEN NoDecision
    ELSE MomentumOn(symbol, price,
                    RMul(RDiv(RSub(price, NumOf(prev_close)), NumOf(prev_close)), RInt(100)),
                    portfolio)

\* MomentumStrategy.generate
MomentumGenerate(symbol, price, directive, portfolio) ==
    MomentumFrom(symbol, price, Get(Or(Get(directive, "quote"), Dict(<<>>)).m, "pc"),
                 portfolio)

\* ValueStrategy.generate once the action is chosen
ValueAct(symbol, price, action, portfolio) ==
    IF action = "" THEN NoDecision
    ELSE IF price.n = 0 THEN ZeroDivision
    ELSE Sized("value", symbol, action, Quantity(portfolio.cash, Rat(3, 100), price),
               IF action = "buy" THEN Rat(6, 10) ELSE Rat(5, 10), "pe_margin")

\* ValueStrategy.generate once the two fundamentals are read
ValueOn(symbol, price, profit_margin, pe_ratio, portfolio) ==
    IF profit_margin = None \/ pe_ratio = None THEN NoDecision
    ELSE ValueAct(symbol, price,
                  IF /\ RLe(NumOf(pe_ratio), RInt(18))
                     /\ RLe(RInt(5), RMul(NumOf(profit_margin), RInt(100)))
                  THEN "buy"
                  ELSE IF RLt(RInt(27), NumOf(pe_ratio)) THEN "sell"
                  ELSE "",
                  portfolio)

\* ValueStrategy.generate on the fundamentals dict
ValueFrom(symbol, price, fundamentals, portfolio) ==
    ValueOn(symbol, price,
            AsFloat(Get(fundamentals, "ProfitMargin")),
            AsFloat(Or(Or(Get(fundamentals, "PERatio"), Get(fundamentals, "TrailingPE")),
                       Get(fundamentals, "PEGRatio"))),
            portfolio)

\* ValueStrategy.generate
ValueGenerate(symbol, price, directive, portfolio) ==
    ValueFrom(symbol, price, Or(Get(directive, "fundamentals"), Dict(<<>>)).m, portfolio)

\* the items of _extract_sentiment of macro.py that carry a score
Scored(news_items) == SelectSeq(news_items, LAMBDA item : IsNum(Get(item.m, "sentiment")))

\* _extract_sentiment of macro.py
ExtractSentiment(news_items) ==
    [k \in 1..Len(Scored(news_items)) |-> NumOf(Get(Scored(news_items)[k].m, "sentiment"))]

\* MacroStrategy.generate once the average sentiment and the quantity are computed
MacroOn(symbol, avg_sentiment, qty) ==
    IF qty <= 0 THEN NoDecision
    ELSE IF RLe(Rat(15, 100), avg_sentiment)
         THEN Decision("macro", symbol, "buy", qty,
                       RMin(RInt(1), avg_sentiment), "avg_sentiment")
    ELSE IF RLe(avg_sentiment, Rat(-15, 100))
         THEN Decision("macro", symbol, "sell", qty,
                       RMin(RInt(1), RAbs(avg_sentiment)), "avg_sentiment")
    ELSE NoDecision

\* MacroStrategy.generate on the sentiment scores
MacroFrom(symbol, price, sentiment_scores, portfolio) ==
    IF sentiment_scores = <<>> THEN NoDecision
    ELSE IF price.n = 0 THEN ZeroDivision
    ELSE MacroOn(symbol, RDiv(RSum(sentiment_scores), RInt(Len(sentiment_scores))),
                 Quantity(portfolio.cash, Rat(2, 100), price))

\* MacroStrategy.generate
MacroGenerate(symbol, price, directive, portfolio) ==
    MacroFrom(symbol, price, ExtractSentiment(Or(Get(directive, "news"), List(<<>>)).l),
              portfolio)

\* strategy.generate(...) for the strategies of _default_strategies
Generate(name, symbol, price, directive, portfolio) ==
    CASE name = "momentum" -> MomentumGenerate(symbol, price, directive, portfolio)
      [] name = "value"    -> ValueGenerate(symbol, price, directive, portfolio)
      [] name = "macro"    -> MacroGenerate(symbol, price, directive, portfolio)

\* _default_stats of learning/performance.py
DefaultStats ==
    [trades |-> 0, wins |-> 0, losses |-> 0, realized_pnl |-> RInt(0),
     avg_confidence |-> RInt(0), penalties |-> 0, weight |-> RInt(1)]

\* max(lo, min(hi, x))
Clamp(lo, hi, x) == RMax(lo, RMin(hi, x))

\* _rolling_average
RollingAverage(previous, count, new_value) ==
    IF count <= 0 THEN RInt(0)
    ELSE RAdd(previous, RDiv(RSub(new_value, previous), RInt(Max(1, count))))

\* the sum of _recompute_weight without its clamp
RecomputeWeightUnclamped(stats) ==
    Round4(RSub(RAdd(RAdd(stats.avg_confidence,
                          RMin(Rat(1, 2), Rat(stats.trades, 40))),
                     Clamp(Rat(-1, 2), Rat(1, 2),
                           RDiv(stats.realized_pnl, RInt(10000)))),
                RMin(Rat(1, 2), Rat(stats.penalties, 10))))

\* _recompute_weight: avg_confidence + trade_bonus + pnl_bonus - penalty_drag, clamped
RecomputeWeight(stats) ==
    Round4(Clamp(Rat(1, 10), Rat(25, 10),
                 RSub(RAdd(RAdd(stats.avg_confidence,
                                RMin(Rat(1, 2), Rat(stats.trades, 40))),
                           Clamp(Rat(-1, 2), Rat(1, 2),
                                 RDiv(stats.realized_pnl, RInt(10000)))),
                      RMin(Rat(1, 2), Rat(stats.penalties, 10)))))

\* self._strategies.setdefault(name, _default_stats())
StatsOf(tr, name) == IF name \in DOMAIN tr.strategies THEN tr.strategies[name] ELSE DefaultStats

\* float(confidence) if isinstance(confidence, (int, float)) else 0.0
ConfidenceOf(entry) ==
    IF IsNum(Get(entry.m, "confidence")) THEN NumOf(Get(entry.m, "confidence")) ELSE RInt(0)

\* the counters of a strategy after one more fill
Counted(old, value, share_delta) ==
    [old EXCEPT !.trades = @ + 1,
                !.wins = IF share_delta.n > 0 THEN @ + 1 ELSE @,
                !.losses = IF share_delta.n < 0 THEN @ + 1 ELSE @,
                !.realized_pnl = RAdd(@, share_delta),
                !.avg_confidence = RollingAverage(@, old.trades + 1, value)]

\* stats["weight"] = _recompute_weight(stats)
Weighted(stats) == [stats EXCEPT !.weight = RecomputeWeight(stats)]

\* one pass of the loop of PerformanceTracker.record_fill
RecordEntry(tr, name, entry, share_delta) ==
    IF ~IsStr(name) \/ name.s = "" THEN tr
    ELSE [tr EXCEPT !.strategies =
              (name.s :> Weighted(Counted(StatsOf(tr, name.s), ConfidenceOf(entry),
                                          share_delta))) @@ @]

RECURSIVE RecordEntries(_, _, _, _)
\* the loop of PerformanceTracker.record_fill over the strategies of the fill
RecordEntries(tr, entries, i, share_delta) ==
    IF i > Len(entries) THEN tr
    ELSE RecordEntries(RecordEntry(tr, Get(entries[i].m, "strategy"), entries[i], share_delta),
                       entries, i + 1, share_delta)

\* pnl_delta of record_fill
PnlDelta(tr, pnl) ==
    IF IsNum(pnl) /\ tr.last_realized_pnl # <<>>
    THEN RSub(NumOf(pnl), tr.last_realized_pnl[1])
    ELSE RInt(0)

\* self._last_realized_pnl = float(pnl)
RememberPnl(tr, pnl) ==
    IF IsNum(pnl) THEN [tr EXCEPT !.last_realized_pnl = <<NumOf(pnl)>>] ELSE tr

\* record_fill on a non-empty list of strategies
RecordShares(tr, strategies, pnl) ==
    RecordEntries(RememberPnl(tr, pnl), strategies, 1,
                  RDiv(PnlDelta(tr, pnl), RInt(Len(strategies))))

\* record_fill once the strategies of the fill are read
RecordStrategies(tr, strategies, payload) ==
    IF strategies.t # "list" \/ strategies.l = <<>> THEN tr
    ELSE RecordShares(tr, strategies.l,
                      Get(Or(Get(payload, "portfolio"), Dict(<<>>)).m, "realized_pnl"))

\* PerformanceTracker.record_fill
RecordFill(tr, payload) ==
    RecordStrategies(tr, Or(Get(payload, "strategies"), List(<<>>)), payload)

\* the stats of a strategy after a feedback delta
Adjusted(old, delta) ==
    [old EXCEPT !.penalties = IF delta.n < 0 THEN @ + 1 ELSE @,
                !.weight = Round4(Clamp(Rat(1, 10), Rat(25, 10), RAdd(@, delta)))]

\* PerformanceTracker.apply_feedback
ApplyFeedback(tr, strategy, delta) ==
    IF strategy = "" THEN tr
    ELSE [tr EXCEPT !.strategies = (strategy :> Adjusted(StatsOf(tr, strategy), delta)) @@ @]

\* StrategyCouncilAgent._refresh_strategy_state
RefreshStrategyState(w, a) ==
    [w EXCEPT !.agentObjs[a].strategy_performance = w.tracker.strategies,
              !.agentObjs[a].strategy_weights =
                  [k \in {StrategyNames[j] : j \in 1..Len(StrategyNames)} |->
                      StatsOf(w.tracker, k).weight]]

\* self.strategy_weights.get(name, 1.0)
WeightOf(obj, name) ==
    IF name \in DOMAIN obj.strategy_weights THEN obj.strategy_weights[name] ELSE RInt(1)

\* the actions of the decisions, in the order of their first decision
\* (the key order of the aggregates dict)
RECURSIVE ActionsInOrder(_)
ActionsInOrder(decisions) ==
    IF decisions = <<>> THEN <<>>
    ELSE LET front == ActionsInOrder(SubSeq(decisions, 1, Len(decisions) - 1))
             last  == decisions[Len(decisions)].action
         IN  IF \E k \in 1..Len(front) : front[k] = last THEN front ELSE Append(front, last)

\* aggregates[action] of _build_consensus, mine being the decisions for the action
AggregateOf(obj, action, mine) ==
    [action |-> action,
     weight |-> RSum([k \in 1..Len(mine) |->
                    RMul(RMax(RInt(0), WeightOf(obj, mine[k].strategy)),
                         RMax(RInt(0), mine[k].confidence))]),
     count |-> Len(mine),
     decisions |-> mine]

Aggregate(obj, decisions, action) ==
    AggregateOf(obj, action, SelectSeq(decisions, LAMBDA d : d.action = action))

\* the aggregates dict, in key order
Aggregates(obj, decisions, order) ==
    [k \in 1..Len(order) |-> Aggregate(obj, decisions, order[k])]

OutrankedByCount(x, y) == x.count < y.count \/ (x.count = y.count /\ RLt(x.weight, y.weight))

\* the order of the key (weight, count)
Outranked(x, y) == RLt(x.weight, y.weight) \/ (x.weight = y.weight /\ x.count < y.count)

\* max(aggregates.items(), key = (weight, count)): the first of the largest
BestAction(aggs) ==
    aggs[CHOOSE k \in 1..Len(aggs) :
            /\ \A j \in 1..Len(aggs) : ~Outranked(aggs[k], aggs[j])
            /\ \A j \in 1..(k - 1) : Outranked(aggs[j], aggs[k])]

MinSupport == 2

WeightThreshold == Rat(6, 10)

DecisionDict(d) ==
    Dict([strategy |-> Str(d.strategy), action |-> Str(d.action),
          quantity |-> Num(RInt(d.quantity)), confidence |-> Num(d.confidence),
          rationale |-> Str(d.rationale)])

AverageQuantitySigned(stats) ==
    Rat(RSum([k \in 1..stats.count |-> RInt(stats.decisions[k].quantity)]).n, stats.count)

\* sum(abs(decision.quantity) for decision in stats["decisions"]) / stats["count"]
AverageQuantity(stats) ==
    Rat(RSum([k \in 1..stats.count |-> RInt(Abs(stats.decisions[k].quantity))]).n,
        stats.count)

\* _build_consensus once the quantity is rounded
ConsensusPayload(stats, quantity, symbol, price, directive_id, proposal_id) ==
    IF quantity <= 0 THEN <<>>
    ELSE <<[proposal_id |-> proposal_id,
            symbol |-> symbol,
            price |-> price,
            action |-> Str(stats.action),
            quantity |-> Num(RInt(IF stats.action = "sell" THEN -quantity ELSE quantity)),
            confidence |-> Num(RMin(RInt(1), stats.weight)),
            strategies |-> List([k \in 1..stats.count |-> DecisionDict(stats.decisions[k])]),
            consensus |-> Dict([count |-> Num(RInt(stats.count)),
                                weight |-> Num(stats.weight),
                                directive_id |-> directive_id])]>>

InsufficientFlipped(stats) == stats.count < MinSupport /\ RLt(WeightThreshold, stats.weight)

\* the gate of _build_consensus, line 215
Insufficient(stats) == stats.count < MinSupport /\ RLt(stats.weight, WeightThreshold)

\* _build_consensus once the winning action is chosen
ConsensusOn(stats, symbol, price, directive_id, proposal_id) ==
    IF Insufficient(stats) THEN <<>>
    ELSE ConsensusPayload(stats, Max(0, RoundHalfEven(AverageQuantity(stats))),
                          symbol, price, directive_id, proposal_id)

\* _build_consensus on the aggregates
ConsensusOver(aggs, symbol, price, directive_id, proposal_id) ==
    IF aggs = <<>> THEN <<>>
    ELSE ConsensusOn(BestAction(aggs), symbol, price, directive_id, proposal_id)

\* StrategyCouncilAgent._build_consensus: <<>> for None, else <<payload>>
BuildConsensus(obj, symbol, price, decisions, directive_id, proposal_id) ==
    ConsensusOver(Aggregates(obj, decisions, ActionsInOrder(decisions)),
                  symbol, price, directive_id, proposal_id)

StrategyTopic(name) ==
    CASE name = "momentum" -> "strategy.proposal.momentum"
      [] name = "value"    -> "strategy.proposal.value"
      [] name = "macro"    -> "strategy.proposal.macro"

\* self.audit(action, payload) after a call that may have raised
Audited(w, a, action, payload) ==
    IF w.raised THEN w ELSE AuditCall(w, a, action, payload)

\* StrategyCouncilAgent._publish_strategy_proposal
PublishStrategyProposal(w, a, d, directive_id) ==
    Audited(BusPublish([w EXCEPT !.nextId = @ + 1], StrategyTopic(d.strategy),
                       [proposal_id |-> Uuid(w.nextId),
                        strategy |-> Str(d.strategy), symbol |-> d.symbol,
                        action |-> Str(d.action), quantity |-> Num(RInt(d.quantity)),
                        confidence |-> Num(d.confidence), rationale |-> Str(d.rationale),
                        metadata |-> Dict([data_refs |->
                                              Dict([directive_id |-> directive_id])])]),
            a, "strategy_proposal",
            [proposal_id |-> Uuid(w.nextId),
             strategy |-> Str(d.strategy), symbol |-> d.symbol,
             action |-> Str(d.action), quantity |-> Num(RInt(d.quantity)),
             confidence |-> Num(d.confidence), rationale |-> Str(d.rationale),
             metadata |-> Dict([data_refs |-> Dict([directive_id |-> directive_id])])])

\* symbol and price of _handle_directive
DirectiveSymbol(payload) == CoerceSymbol(Get(payload, "symbol"))

DirectivePrice(payload) == ParseFloat(Get(payload, "latest_close"))

\* what strategy.generate gives for each strategy of self.strategies: its
\* arguments are read before the loop, so the passes of the loop do not change it
Generated(payload, snapshot) ==
    [i \in 1..Len(StrategyNames) |->
        Generate(StrategyNames[i], DirectiveSymbol(payload), NumOf(DirectivePrice(payload)),
                 payload, snapshot)]

\* what the strategies of self.strategies generate: the strategies given in the
\* extras of the context (each stands for what its generate returns), or else the
\* default ones, quant.py 47-51
StrategiesOf(obj, payload, snapshot) ==
    IF "strategies" \in DOMAIN obj THEN obj.strategies ELSE Generated(payload, snapshot)

\* the list proposals of _handle_directive after the loop
DecisionsOf(gs) ==
    [k \in 1..Len(SelectSeq(gs, LAMBDA g : g.decision # <<>>)) |->
        SelectSeq(gs, LAMBDA g : g.decision # <<>>)[k].decision[1]]

RECURSIVE StrategyLoop(_, _, _, _, _)
\* the loop of _handle_directive from strategy i of self.strategies on, lines
\* 120-133, gs being what the strategies generate
StrategyLoop(w, a, gs, i, directive_id) ==
    IF w.raised \/ i > Len(gs) THEN w
    ELSE IF gs[i].raises THEN Raise(w, a, "ZeroDivisionError")
    ELSE IF gs[i].decision = <<>> THEN StrategyLoop(w, a, gs, i + 1, directive_id)
    ELSE StrategyLoop(PublishStrategyProposal(w, a, gs[i].decision[1], directive_id),
                      a, gs, i + 1, directive_id)

\* _handle_directive from the consensus on, lines 137-143
PublishConsensus(w, a, consensus) ==
    IF consensus = <<>> THEN w
    ELSE Audited(BusPublish([w EXCEPT !.nextId = @ + 1], "quant.proposal", consensus[1]),
                 a, "quant_consensus", consensus[1])

\* _handle_directive after the loop over the strategies, lines 134-143
AfterStrategies(w, a, payload, decisions) ==
    IF w.raised \/ decisions = <<>> THEN w
    ELSE PublishConsensus(w, a, BuildConsensus(w.agentObjs[a], DirectiveSymbol(payload),
                                               DirectivePrice(payload), decisions,
                                               Get(payload, "directive_id"),
                                               Uuid(w.nextId)))

\* StrategyCouncilAgent._handle_directive
HandleDirective(w, a, env) ==
    IF DirectiveSymbol(env.payload) = None \/ DirectivePrice(env.payload) = None THEN w
    ELSE AfterStrategies(StrategyLoop(w, a,
                                      StrategiesOf(w.agentObjs[a], env.payload,
                                                   PortfolioSnapshot(w)),
                                      1, Get(env.payload, "directive_id")),
                         a, env.payload,
                         DecisionsOf(StrategiesOf(w.agentObjs[a], env.payload,
                                                  PortfolioSnapshot(w))))

\* StrategyCouncilAgent._handle_execution_fill
HandleExecutionFill(w, a, env) ==
    RefreshStrategyState([w EXCEPT !.tracker = RecordFill(@, env.payload)], a)

\* _handle_strategy_feedback once strategy and delta are read
FeedbackOn(w, a, strategy, delta) ==
    IF IsStr(strategy) /\ IsNum(delta)
    THEN RefreshStrategyState(
             [w EXCEPT !.tracker = ApplyFeedback(@, strategy.s, NumOf(delta))], a)
    ELSE w

\* StrategyCouncilAgent._handle_strategy_feedback
HandleStrategyFeedback(w, a, env) ==
    FeedbackOn(w, a, Get(env.payload, "strategy"), Get(env.payload, "delta"))

\* self.bus.publish(topic, payload) after a call that may have raised
ThenPublish(w, topic, payload) == IF w.raised THEN w ELSE BusPublish(w, topic, payload)

\* what self.context.ingestion.get_market_snapshot gives for symbol i of self.symbols
MarketOf(w, a, i) == w.market[w.agentObjs[a].symbols[i]]

\* snapshot.latest_close or snapshot.quote.get("c")
PriceOf(snapshot) == Or(snapshot.latest_close, Get(snapshot.quote, "c"))

\* one pass of the loop of DirectorAgent.tick, lines 47-59
Directed(w, a, symbol, snapshot) ==
    ThenPublish(BusPublish([w EXCEPT !.nextId = @ + 1], "market.snapshot",
                           [symbol |-> Str(symbol), latest_close |-> PriceOf(snapshot)]),
                "director.directive",
                [directive_id |-> Uuid(w.nextId),
                 symbol |-> Str(symbol),
                 latest_close |-> PriceOf(snapshot),
                 quote |-> Dict(snapshot.quote),
                 fundamentals |-> Dict(snapshot.fundamentals)])

RECURSIVE DirectorTick(_, _, _)
\* DirectorAgent.tick, from symbol i of self.symbols on
DirectorTick(w, a, i) ==
    IF w.raised \/ i > Len(w.agentObjs[a].symbols) THEN w
    ELSE IF MarketOf(w, a, i).raises THEN Raise(w, a, "ingestion")
    ELSE IF PriceOf(MarketOf(w, a, i)) = None THEN DirectorTick(w, a, i + 1)
    ELSE DirectorTick(Directed(w, a, w.agentObjs[a].symbols[i], MarketOf(w, a, i)), a, i + 1)

(* RiskAgent: agents/impl/risk.py, with the defaults of its __init__ *)

HistoryWindow == 60

VolatilityWindow == 5

VolThresholdPct == RInt(5)

RiskMaxPositionPct == Rat(1, 10)

MaxVarPct == Rat(4, 100)

VarLookback == 20

VarZScore == Rat(165, 100)

MaxDrawdownPct == Rat(10, 100)

DrawdownWarningPct == Rat(2, 100)

NavHardStopPct == Rat(5, 100)

StopLossPct == Rat(8, 100)

MaxLeverage == Rat(12, 10)

StressLossThresholdPct == Rat(6, 100)

DrawdownWindow == 30

\* deque(maxlen = n).append
DequeAppend(q, n, x) == IF Len(q) >= n THEN Append(Tail(q), x) ELSE Append(q, x)

RECURSIVE RSumOver(_, _)
\* sum(f(value) for value in table.values())
RSumOver(table, keys) ==
    IF keys = {} THEN RInt(0)
    ELSE LET k == CHOOSE x \in keys : TRUE
         IN  RAdd(table[k], RSumOver(table, keys \ {k}))

RSumValues(table) == RSumOver(table, DOMAIN table)

RSumAbsValues(table) == RSumOver([k \in DOMAIN table |-> RAbs(table[k])], DOMAIN table)

\* RiskAgent._build_exposure_table
BuildExposureTable(obj, snapshot) ==
    [s \in DOMAIN snapshot.positions |->
        RMul(RInt(snapshot.positions[s].quantity),
             IF s \in DOMAIN obj.latest_prices THEN obj.latest_prices[s]
             ELSE snapshot.positions[s].average_cost)]

\* RiskAgent._nav_from_snapshot
NavFromSnapshot(obj, snapshot) ==
    RAdd(RInt(snapshot.cash), RSumValues(BuildExposureTable(obj, snapshot)))

\* the returns of _symbol_returns over the pairs of consecutive closes of tail
ReturnsOver(pairs) ==
    [k \in 1..Len(pairs) |-> RDiv(RSub(pairs[k][2], pairs[k][1]), pairs[k][1])]

\* zip(tail, tail[1:]) without the pairs whose first close is 0
PairsOf(tail) ==
    SelectSeq([k \in 1..(Len(tail) - 1) |-> <<tail[k], tail[k + 1]>>], LAMBDA pr : pr[1].n # 0)

\* RiskAgent._symbol_returns
SymbolReturns(obj, symbol) ==
    IF symbol \notin DOMAIN obj.history \/ Len(obj.history[symbol]) < 2 THEN <<>>
    ELSE ReturnsOver(PairsOf(LastN(obj.history[symbol], VarLookback + 1)))

Square(x) == RMul(x, x)

\* the mean of the squared distances of xs from mean
PVarianceAbout(xs, mean) ==
    RDiv(RSum([k \in 1..Len(xs) |-> Square(RSub(xs[k], mean))]), RInt(Len(xs)))

\* statistics.pvariance
PVariance(xs) == PVarianceAbout(xs, RDiv(RSum(xs), RInt(Len(xs))))

\* (weight ** 2) * symbol_var, 0 for a symbol with fewer than two returns
WeightedVariance(returns, weight) ==
    IF Len(returns) < 2 THEN RInt(0) ELSE RMul(Square(weight), PVariance(returns))

\* the variance that _estimate_portfolio_var accumulates; it returns
\* var_pct = z * sqrt(variance), or 0 when the variance is not positive
PortfolioVariance(obj, nav, exposures) ==
    RSumValues([s \in DOMAIN exposures |->
                   WeightedVariance(SymbolReturns(obj, s),
                                    RDiv(exposures[s], RMax(nav, RInt(1))))])

\* var_pct > self.max_var_pct, decided on the squares (both sides are >= 0)
VarExceeds(variance) ==
    /\ variance.n > 0
    /\ RLt(Square(MaxVarPct), RMul(Square(VarZScore), variance))

\* self.alert(action, payload); self.audit(action, payload) after a call that may
\* have raised
AlertThenAudit(w, a, action, payload, severity) ==
    IF w.raised THEN w
    ELSE AuditCall(AlertCall(w, a, action, payload, severity), a, action, payload)

\* self.audit(action, payload); self.alert(action, payload)
AuditThenAlert(w, a, action, payload, severity) ==
    AlertCall(AuditCall(w, a, action, payload), a, action, payload, severity)

\* _emit_kill_switch on its payload
EmitPayload(w, a, payload) ==
    AlertThenAudit(BusPublish(w, "risk.kill_switch", payload), a, "risk_kill_switch",
                   payload, "critical")

\* RiskAgent._emit_kill_switch
EmitKillSwitch(w, a, reason, details) == EmitPayload(w, a, [reason |-> Str(reason)] @@ details)

\* self._active_stop_losses.discard(symbol)
Discard(w, a, symbol) == [w EXCEPT !.agentObjs[a].active_stop_losses = @ \ {symbol}]

\* _check_stop_loss, lines 362-371
StopLossHit(w, a, symbol, payload) ==
    AlertThenAudit(BusPublish([w EXCEPT !.agentObjs[a].active_stop_losses = @ \cup {symbol}],
                              "risk.stop_loss", payload),
                   a, "risk_stop_loss", payload, "error")

\* _check_stop_loss once move_pct is computed
StopLossOn(w, a, symbol, price, position, move_pct) ==
    IF RLe(move_pct, RNeg(RMul(StopLossPct, RInt(100))))
    THEN IF symbol \in w.agentObjs[a].active_stop_losses THEN w
         ELSE StopLossHit(w, a, symbol,
                          [symbol |-> Str(symbol),
                           price |-> Num(price),
                           average_cost |-> Num(position.average_cost),
                           quantity |-> Num(RInt(position.quantity)),
                           loss_pct |-> Num(move_pct)])
    ELSE Discard(w, a, symbol)

\* _check_stop_loss for a position that is held
StopLossFor(w, a, symbol, price, position) ==
    IF position.average_cost.n <= 0 THEN w
    ELSE StopLossOn(w, a, symbol, price, position,
                    RMul(RMul(RDiv(RSub(price, position.average_cost), position.average_cost),
                              RInt(100)),
                         RInt(IF position.quantity > 0 THEN 1 ELSE -1)))

\* RiskAgent._check_stop_loss
CheckStopLoss(w, a, symbol, price, snapshot) ==
    IF symbol \notin DOMAIN snapshot.positions \/ snapshot.positions[symbol].quantity = 0
    THEN Discard(w, a, symbol)
    ELSE StopLossFor(w, a, symbol, price, snapshot.positions[symbol])

\* max(self._nav_history)
RECURSIVE RMaxOf(_)
RMaxOf(q) == IF Len(q) = 1 THEN q[1] ELSE RMax(q[1], RMaxOf(Tail(q)))

HardStopOnGain(day_change_pct) == RLe(NavHardStopPct, day_change_pct)

\* abs(day_change_pct) >= self.nav_hard_stop_pct
HardStop(day_change_pct) == RLe(NavHardStopPct, RAbs(day_change_pct))

\* _update_nav_history, lines 324-336
Drawdown(w, a, nav, drawdown_pct) ==
    IF RLe(MaxDrawdownPct, RAbs(drawdown_pct))
    THEN AlertCall(w, a, "risk_drawdown_warning",
                   [drawdown_pct |-> Num(drawdown_pct), nav |-> Num(nav)], "warning")
    ELSE IF RLe(DrawdownWarningPct, RAbs(drawdown_pct))
    THEN AlertCall(w, a, "risk_drawdown_soft",
                   [drawdown_pct |-> Num(drawdown_pct), nav |-> Num(nav)], "info")
    ELSE w

\* _update_nav_history, lines 320-336
NavPeak(w, a, nav, peak) ==
    IF peak.n = 0 THEN w ELSE Drawdown(w, a, nav, RDiv(RSub(nav, peak), peak))

\* _update_nav_history, lines 313-336, for a previous nav that is not 0
NavChanged(w, a, nav, day_change_pct) ==
    IF HardStop(day_change_pct)
    THEN EmitKillSwitch(w, a, "daily_loss_hard_stop",
                        [daily_change_pct |-> Num(day_change_pct), nav |-> Num(nav)])
    ELSE NavPeak(w, a, nav, RMaxOf(w.agentObjs[a].nav_history))

\* _update_nav_history, lines 311-336
NavAfter(w, a, nav, prev_nav) ==
    IF prev_nav.n # 0 THEN NavChanged(w, a, nav, RDiv(RSub(nav, prev_nav), prev_nav))
    ELSE NavPeak(w, a, nav, RMaxOf(w.agentObjs[a].nav_history))

\* _update_nav_history, lines 309-336
NavAppended(w, a, nav) ==
    IF Len(w.agentObjs[a].nav_history) < 2 THEN w
    ELSE NavAfter(w, a, nav,
                  w.agentObjs[a].nav_history[Len(w.agentObjs[a].nav_history) - 1])

\* _update_nav_history once the nav is computed
NavRecorded(w, a, nav) ==
    NavAppended([w EXCEPT !.agentObjs[a].nav_history = DequeAppend(@, DrawdownWindow, nav)],
                a, nav)

\* RiskAgent._update_nav_history
UpdateNavHistory(w, a, snapshot) == NavRecorded(w, a, NavFromSnapshot(w.agentObjs[a], snapshot))

\* round(x, 2)
Round2(x) == Rat(RoundHalfEven(RMul(x, RInt(100))), 100)

\* round(x, 3)
Round3(x) == Rat(RoundHalfEven(RMul(x, RInt(1000))), 1000)

\* _handle_snapshot, lines 110-115
VolatilityAlert(w, a, symbol, closes, change_pct) ==
    IF Len(closes) >= VolatilityWindow /\ RLe(VolThresholdPct, RAbs(change_pct))
    THEN AuditThenAlert(w, a, "risk_alert",
                        [symbol |-> Str(symbol), change_pct |-> Num(Round2(change_pct))],
                        "warning")
    ELSE w

\* _handle_snapshot, lines 107-115, closes being the symbol's deque
Volatility(w, a, symbol, closes) ==
    IF w.raised \/ Len(closes) < 2 THEN w
    ELSE VolatilityAlert(w, a, symbol, closes,
                         IF closes[Len(closes) - 1].n # 0
                         THEN RMul(RDiv(RSub(closes[Len(closes)], closes[Len(closes) - 1]),
                                        closes[Len(closes) - 1]),
                                   RInt(100))
                         ELSE RInt(0))

\* self._update_nav_history(snapshot) after a call that may have raised
ThenUpdateNav(w, a, snapshot) == IF w.raised THEN w ELSE UpdateNavHistory(w, a, snapshot)

\* _handle_snapshot, lines 104-115
SnapshotRecorded(w, a, symbol, close) ==
    Volatility(ThenUpdateNav(CheckStopLoss(w, a, symbol, close, PortfolioSnapshot(w)),
                             a, PortfolioSnapshot(w)),
               a, symbol, w.agentObjs[a].history[symbol])

\* _handle_snapshot, lines 101-103
Recorded(w, a, symbol, close) ==
    [w EXCEPT !.agentObjs[a].history =
                  (symbol :> DequeAppend(IF symbol \in DOMAIN @ THEN @[symbol] ELSE <<>>,
                                         HistoryWindow, close)) @@ @,
              !.agentObjs[a].latest_prices = (symbol :> close) @@ @]

\* _handle_snapshot once symbol and latest_close are read
SnapshotOn(w, a, symbol, latest_close) ==
    IF symbol = "" \/ latest_close = None THEN w
    ELSE SnapshotRecorded(Recorded(w, a, symbol, NumOf(latest_close)), a, symbol,
                          NumOf(latest_close))

\* str(raw_symbol) if raw_symbol is not None else None ("" standing for None: the
\* code treats both alike)
SymbolOf(raw_symbol) == IF raw_symbol = None THEN "" ELSE StrOf(raw_symbol)

\* RiskAgent._handle_snapshot
HandleSnapshot(w, a, env) ==
    SnapshotOn(w, a, SymbolOf(Get(env.payload, "symbol")),
               AsFloat(Get(env.payload, "latest_close")))

\* RiskAgent._reject_with_reason, and the inline rejection of lines 143-146
RiskReject(w, a, proposal_id, symbol, reason, extra) ==
    AuditThenAlert(w, a, "risk_reject",
                   [proposal_id |-> proposal_id, symbol |-> Str(symbol),
                    reason |-> Str(reason)] @@ extra,
                   "error")

\* max(1.0, snapshot.cash * self.max_position_pct)
NotionalLimit(cash_) == RMax(RInt(1), RMul(RInt(cash_), RiskMaxPositionPct))

\* projected_exposures of _handle_proposal
Projected(exposures, symbol, order) ==
    (symbol :> RAdd(IF symbol \in DOMAIN exposures THEN exposures[symbol] ELSE RInt(0), order))
        @@ exposures

\* quantity * price of _handle_proposal
OrderValue(price, quantity) == RMul(NumOf(quantity), NumOf(price))

\* projected_exposures of _handle_proposal
ProjectedFor(w, a, symbol, price, quantity) ==
    Projected(BuildExposureTable(w.agentObjs[a], PortfolioSnapshot(w)), symbol,
              OrderValue(price, quantity))

\* nav of _handle_proposal
RiskNav(w, a) == NavFromSnapshot(w.agentObjs[a], PortfolioSnapshot(w))

\* gross_exposure of _handle_proposal
Gross(w, a, symbol, price, quantity) == RSumAbsValues(ProjectedFor(w, a, symbol, price, quantity))

\* leverage of _handle_proposal
Leverage(w, a, symbol, price, quantity) ==
    RDiv(Gross(w, a, symbol, price, quantity), RMax(RiskNav(w, a), RInt(1)))

\* the variance behind var_pct of _handle_proposal
Variance(w, a, symbol, price, quantity) ==
    PortfolioVariance(w.agentObjs[a], RiskNav(w, a), ProjectedFor(w, a, symbol, price, quantity))

\* the approval of _handle_proposal, lines 175-196; it carries the variance in
\* place of var_pct and var_amount, which are its square root scaled
RiskApproval(w, a, symbol, price, quantity, proposal_id) ==
    [proposal_id |-> proposal_id,
     symbol |-> Str(symbol),
     price |-> price,
     quantity |-> quantity,
     risk_limit |-> Num(NotionalLimit(w.cash)),
     risk_metrics |-> Dict([nav |-> Num(RiskNav(w, a)),
                            gross_exposure |-> Num(Gross(w, a, symbol, price, quantity)),
                            leverage |-> Num(Leverage(w, a, symbol, price, quantity)),
                            variance |-> Num(Variance(w, a, symbol, price, quantity))])]

OverLeveragedNever(leverage) == FALSE

\* leverage > self.max_leverage, line 147
OverLeveraged(leverage) == RLt(MaxLeverage, leverage)

\* _handle_proposal once the fields of the payload are read
ProposalOn(w, a, symbol, price, quantity, proposal_id) ==
    IF symbol = "" \/ price = None \/ quantity = None \/ ~Truthy(proposal_id) THEN w
    ELSE IF RLt(NotionalLimit(w.cash), RAbs(OrderValue(price, quantity)))
    THEN RiskReject(w, a, proposal_id, symbol, "notional_limit", <<>>)
    ELSE IF OverLeveraged(Leverage(w, a, symbol, price, quantity))
    THEN RiskReject(w, a, proposal_id, symbol, "gross_leverage_limit",
                    [projected_leverage |->
                         Num(Round3(Leverage(w, a, symbol, price, quantity)))])
    ELSE IF VarExceeds(Variance(w, a, symbol, price, quantity))
    THEN RiskReject(w, a, proposal_id, symbol, "var_limit",
                    [variance |-> Num(Variance(w, a, symbol, price, quantity))])
    ELSE BusPublish(w, "risk.approval", RiskApproval(w, a, symbol, price, quantity, proposal_id))

\* RiskAgent._handle_proposal
HandleProposal(w, a, env) ==
    ProposalOn(w, a, SymbolOf(Get(env.payload, "symbol")), AsFloat(Get(env.payload, "price")),
               AsFloat(Get(env.payload, "quantity")), Get(env.payload, "proposal_id"))

\* RISK_STRESS_TICK_INTERVAL as the modelled deployment sets it (default 12)
StressIntervalTicks == 2

\* StressTestHarness._default_scenarios: name and shock_pct
StressScenarios ==
    <<[name |-> "broad_market_drop_5", shock_pct |-> Rat(-5, 100)],
      [name |-> "single_name_gap_10", shock_pct |-> Rat(-10, 100)],
      [name |-> "liquidity_crunch", shock_pct |-> Rat(-7, 100)]>>

\* StressTestHarness.run
StressRun(exposures, nav) ==
    [k \in 1..Len(StressScenarios) |->
        [scenario |-> StressScenarios[k].name,
         pnl_pct |-> RDiv(RMul(RSumValues(exposures), StressScenarios[k].shock_pct),
                          RMax(nav, RInt(1)))]]

\* StressResult.breached
Breached(result, threshold_pct) == RLe(result.pnl_pct, RNeg(RAbs(threshold_pct)))

\* min(breached, key = pnl_pct): the first of the smallest
WorstOf(results) ==
    results[CHOOSE k \in 1..Len(results) :
                /\ \A j \in 1..Len(results) : RLe(results[k].pnl_pct, results[j].pnl_pct)
                /\ \A j \in 1..(k - 1) : RLt(results[k].pnl_pct, results[j].pnl_pct)]

\* _maybe_run_stress_test, lines 222-237
StressBreach(w, a, payload, nav, worst) ==
    EmitKillSwitch(AlertCall(w, a, "risk_stress_breach",
                             payload @@ [worst_scenario |-> Str(worst.scenario),
                                         pnl_pct |-> Num(worst.pnl_pct)],
                             "critical"),
                   a, "stress_breach:" \o worst.scenario,
                   [pnl_pct |-> Num(worst.pnl_pct), nav |-> Num(nav)])

\* _maybe_run_stress_test, lines 214-237
StressReported(w, a, payload, nav, breached) ==
    IF breached = <<>> THEN AuditCall(w, a, "risk_stress_run", payload)
    ELSE StressBreach(AuditCall(w, a, "risk_stress_run", payload), a, payload, nav,
                      WorstOf(breached))

\* _maybe_run_stress_test, lines 207-237
StressResults(w, a, nav, results) ==
    StressReported(w, a,
                   [nav |-> Num(nav),
                    stress_results |->
                        List([k \in 1..Len(results) |->
                                 Dict([scenario |-> Str(results[k].scenario),
                                       pnl_pct |-> Num(results[k].pnl_pct)])]),
                    threshold_pct |-> Num(StressLossThresholdPct)],
                   nav,
                   SelectSeq(results, LAMBDA r : Breached(r, StressLossThresholdPct)))

\* _maybe_run_stress_test, lines 203-237
StressDue(w, a, nav) ==
    StressResults(w, a, nav,
                  StressRun(BuildExposureTable(w.agentObjs[a], PortfolioSnapshot(w)), nav))

MaybeRunStressTestEveryTick(w, a) ==
    StressDue([w EXCEPT !.agentObjs[a].ticks_since_stress = 0], a,
              NavFromSnapshot(w.agentObjs[a], PortfolioSnapshot(w)))

\* RiskAgent._maybe_run_stress_test
MaybeRunStressTest(w, a) ==
    IF w.agentObjs[a].ticks_since_stress + 1 < StressIntervalTicks
    THEN [w EXCEPT !.agentObjs[a].ticks_since_stress = @ + 1]
    ELSE StressDue([w EXCEPT !.agentObjs[a].ticks_since_stress = 0], a,
                   NavFromSnapshot(w.agentObjs[a], PortfolioSnapshot(w)))

(* ComplianceAgent: agents/impl/compliance.py *)

\* COMPLIANCE_RESTRICTED as the modelled deployment sets it (default: empty)
RestrictedNone == {}

Restricted == {"TSLA"}

ComplianceMaxPositionPct == Rat(2, 10)

\* the default COMPLIANCE_PROHIBITED_TACTICS
ProhibitedKeywords ==
    <<"spoofing", "layering", "insider", "pump-and-dump", "pump_and_dump", "front_running">>

InsiderFlags == {"insider_signal", "mnpi_flag", "material_non_public"}

TextFields == <<"tactic", "strategy", "strategy_tags", "notes", "thesis", "rationale">>

\* keyword in token, for the tokens the inputs use
Contains(token, keyword) ==
    \/ token = keyword
    \/ token = "insider tip" /\ keyword = "insider"

\* str.lower() on the tokens the inputs use
Lower(s) == IF s = "Spoofing" THEN "spoofing" ELSE s

\* _normalize_field on a value that is not a container
Leaf(v) == IF IsStr(v) THEN <<Lower(v.s)>> ELSE <<>>

\* _normalize_field over the items of a list
RECURSIVE Flat(_)
Flat(q) == IF q = <<>> THEN <<>> ELSE Leaf(Head(q)) \o Flat(Tail(q))

\* ComplianceAgent._normalize_field, two levels deep
NormalizeField(value) ==
    CASE value.t = "str"  -> Leaf(value)
      [] value.t = "list" -> Flat(value.l)
      [] OTHER -> <<>>

\* ComplianceAgent._extract_text_tokens
RECURSIVE ExtractTextTokens(_, _)
ExtractTextTokens(payload, i) ==
    IF i > Len(TextFields) THEN <<>>
    ELSE NormalizeField(Get(payload, TextFields[i])) \o ExtractTextTokens(payload, i + 1)

\* any(keyword in token for token in text_tokens)
Hit(tokens, k) == \E i \in 1..Len(tokens) : Contains(tokens[i], ProhibitedKeywords[k])

\* _detect_prohibited_behavior on the tokens and the set insider flags: "" for
\* None (the inputs set at most one insider flag, so the iteration order of the
\* flag set does not show)
DetectOn(tokens, flagged) ==
    IF \E k \in 1..Len(ProhibitedKeywords) : Hit(tokens, k)
    THEN "prohibited_tactic:"
             \o ProhibitedKeywords[CHOOSE k \in 1..Len(ProhibitedKeywords) :
                                       Hit(tokens, k) /\ \A j \in 1..(k - 1) : ~Hit(tokens, j)]
    ELSE IF flagged # {}
    THEN "insider_indicator:" \o (CHOOSE flag \in flagged : TRUE)
    ELSE ""

\* ComplianceAgent._detect_prohibited_behavior
DetectProhibitedBehavior(payload) ==
    DetectOn(ExtractTextTokens(payload, 1),
             {flag \in InsiderFlags : Truthy(Get(payload, flag))})

\* the payload of a compliance rejection
Rejection(proposal_id, symbol, reason) ==
    [proposal_id |-> proposal_id, symbol |-> Str(symbol), reason |-> Str(reason)]

\* self.audit("compliance_reject", payload); self.alert("compliance_reject", payload)
ComplianceReject(w, a, payload, severity) ==
    IF w.raised THEN w ELSE AuditThenAlert(w, a, "compliance_reject", payload, severity)

\* a rejection of a prohibited tactic that broadcasts nothing
ProhibitedQuiet(w, a, payload) == ComplianceReject(w, a, payload, "critical")

\* _handle_risk_approval, lines 84-95
Prohibited(w, a, payload) ==
    ComplianceReject(BusPublish(w, "compliance.kill_switch", payload), a, payload, "critical")

\* nav of _handle_risk_approval
ComplianceNav(snapshot) ==
    RMax(RAdd(RInt(snapshot.cash),
              RSumAbsValues([s \in DOMAIN snapshot.positions |->
                                RMul(RInt(snapshot.positions[s].quantity),
                                     snapshot.positions[s].average_cost)])),
         RInt(1))

\* projected_qty of _handle_risk_approval
ProjectedQty(w, symbol, quantity) == RAdd(RInt(HeldQty(w.positions, symbol)), NumOf(quantity))

\* (projected_notional / nav) > self.max_position_pct
Concentrated(w, symbol, price, quantity) ==
    RLt(ComplianceMaxPositionPct,
        RDiv(RAbs(RMul(ProjectedQty(w, symbol, quantity), NumOf(price))),
             ComplianceNav(PortfolioSnapshot(w))))

\* _handle_risk_approval once the fields of the payload are read
RiskApprovalOn(w, a, payload, symbol, price, quantity, proposal_id) ==
    IF symbol = "" \/ price = None \/ quantity = None \/ ~Truthy(proposal_id) THEN w
    ELSE IF symbol \in Restricted
    THEN ComplianceReject(w, a, Rejection(proposal_id, symbol, "restricted_symbol"), "error")
    ELSE IF DetectProhibitedBehavior(payload) # ""
    THEN Prohibited(w, a, Rejection(proposal_id, symbol, DetectProhibitedBehavior(payload)))
    ELSE IF Concentrated(w, symbol, price, quantity)
    THEN ComplianceReject(w, a, Rejection(proposal_id, symbol, "concentration_limit"), "error")
    ELSE BusPublish(w, "compliance.approval",
                    [projected_quantity |-> Num(ProjectedQty(w, symbol, quantity))] @@ payload)

\* str(raw_symbol).upper() if isinstance(raw_symbol, str) else None ("" for None)
UpperSymbol(raw_symbol) == IF IsStr(raw_symbol) THEN Upper(raw_symbol.s) ELSE ""

\* ComplianceAgent._handle_risk_approval
HandleRiskApproval(w, a, env) ==
    RiskApprovalOn(w, a, env.payload, UpperSymbol(Get(env.payload, "symbol")),
                   AsFloat(Get(env.payload, "price")), AsFloat(Get(env.payload, "quantity")),
                   Get(env.payload, "proposal_id"))

(* ExecutionAgent: agents/impl/execution.py *)

\* self.portfolio_store.apply_fill(symbol, quantity, price): the ledger after it;
\* the quantities and prices of the modelled inputs are whole numbers
LedgerFilled(w, symbol, price, quantity) ==
    LedgerAfterFill(PortfolioSnapshot(w), symbol, quantity.n, price.n)

\* the stage's world once the ledger applied the fill
Applied(w, after) ==
    [w EXCEPT !.cash = after.cash, !.realized_pnl = after.realized_pnl,
              !.positions = after.positions]

\* event of _handle_approval, lines 64-71, after being what the ledger returned
FillEvent(payload, symbol, price, quantity, proposal_id, after) ==
    [proposal_id |-> proposal_id,
     symbol |-> Str(symbol),
     price |-> price,
     quantity |-> quantity,
     portfolio |-> Dict([cash |-> Num(RInt(after.cash)),
                         realized_pnl |-> Num(after.realized_pnl),
                         position_quantity |-> Num(RInt(HeldQty(after.positions, symbol)))]),
     strategies |-> Get(payload, "strategies")]

\* a handler that fills the ledger for an approval without an id before it drops it
ApprovalOnUnidentified(w, a, payload, symbol, price, quantity, proposal_id) ==
    IF symbol = "" \/ price = None \/ quantity = None THEN w
    ELSE IF FillRaises(quantity.n, price.n) THEN Raise(w, a, "ValueError")
    ELSE IF ~Truthy(proposal_id) THEN Applied(w, LedgerFilled(w, symbol, price, quantity))
    ELSE Audited(BusPublish(Applied(w, LedgerFilled(w, symbol, price, quantity)),
                            "execution.fill",
                            FillEvent(payload, symbol, price, quantity, proposal_id,
                                      LedgerFilled(w, symbol, price, quantity))),
                 a, "execution_fill",
                 FillEvent(payload, symbol, price, quantity, proposal_id,
                           LedgerFilled(w, symbol, price, quantity)))

\* _handle_approval once the fields of the payload are read
ApprovalOn(w, a, payload, symbol, price, quantity, proposal_id) ==
    IF symbol = "" \/ price = None \/ quantity = None \/ ~Truthy(proposal_id) THEN w
    ELSE IF FillRaises(quantity.n, price.n) THEN Raise(w, a, "ValueError")
    ELSE Audited(BusPublish(Applied(w, LedgerFilled(w, symbol, price, quantity)),
                            "execution.fill",
                            FillEvent(payload, symbol, price, quantity, proposal_id,
                                      LedgerFilled(w, symbol, price, quantity))),
                 a, "execution_fill",
                 FillEvent(payload, symbol, price, quantity, proposal_id,
                           LedgerFilled(w, symbol, price, quantity)))

\* ExecutionAgent._handle_approval
HandleApproval(w, a, env) ==
    ApprovalOn(w, a, env.payload, UpperSymbol(Get(env.payload, "symbol")),
               AsFloat(Get(env.payload, "price")), AsFloat(Get(env.payload, "quantity")),
               Get(env.payload, "proposal_id"))

----------------------------------------------------------------------------
(* The stage objects and their lifecycle: agents/base.py, agents/registry.py *)

AgentHandler(kind, a) == [kind |-> kind, topic |-> "", agent |-> a]

\* the constructors registered by register_builtin_agents
NewAgentObj(w, name) ==
    CASE name \in {"director", "data_director"} ->
            [name |-> name, cls |-> "director", is_setup |-> FALSE,
             symbols |-> <<"SPY", "QQQ">>]
      [] name = "quant" ->
            [name |-> name, cls |-> "quant", is_setup |-> FALSE,
             directive_subscription |-> 0, execution_subscription |-> 0,
             feedback_subscription |-> 0,
             strategy_performance |-> <<>>, strategy_weights |-> <<>>]
      [] name = "risk" ->
            [name |-> name, cls |-> "risk", is_setup |-> FALSE,
             subscriptions |-> <<>>, history |-> <<>>, latest_prices |-> <<>>,
             nav_history |-> <<>>, active_stop_losses |-> {}, ticks_since_stress |-> 0]
      [] name \in {"compliance", "execution"} ->
            [name |-> name, cls |-> name, is_setup |-> FALSE, subscription |-> 0]

\* registry.create(name, context): the new object gets the next id
CreateAgent(w, name) ==
    LET a  == Len(w.agentObjs) + 1
        w1 == [w EXCEPT !.agentObjs = Append(@, NewAgentObj(w, name))]
    IN  IF name = "quant" THEN RefreshStrategyState(w1, a) ELSE w1

\* the id bus.subscribe gives the next subscription
NextSubId(w) == Len(w.subObjs) + 1

\* the subscriptions the setup hook of a stage asks for, in the order of its
\* code, and the field of the stage that keeps each
SetupPlan(cls) ==
    CASE cls = "quant" ->
            <<[kind |-> "directive", topic |-> "director.directive", replay_last |-> 0,
               field |-> "directive_subscription"],
              [kind |-> "execution_fill", topic |-> "execution.fill", replay_last |-> 0,
               field |-> "execution_subscription"],
              [kind |-> "strategy_feedback", topic |-> "strategy.feedback", replay_last |-> 0,
               field |-> "feedback_subscription"]>>
      [] cls = "risk" ->
            <<[kind |-> "snapshot", topic |-> "market.snapshot", replay_last |-> 5,
               field |-> "subscriptions"],
              [kind |-> "proposal", topic |-> "quant.proposal", replay_last |-> 0,
               field |-> "subscriptions"]>>
      [] cls = "compliance" ->
            <<[kind |-> "risk_approval", topic |-> "risk.approval", replay_last |-> 0,
               field |-> "subscription"]>>
      [] cls = "execution" ->
            <<[kind |-> "approval", topic |-> "compliance.approval", replay_last |-> 0,
               field |-> "subscription"]>>
      [] OTHER -> <<>>

\* the stage keeps the subscription bus.subscribe returned (the risk stage appends
\* it to a list), unless the call raised
Kept(w, a, field, id) ==
    IF w.raised THEN w
    ELSE IF field = "subscriptions"
    THEN [w EXCEPT !.agentObjs[a].subscriptions = Append(@, id)]
    ELSE [w EXCEPT !.agentObjs[a][field] = id]

RECURSIVE SetupSteps(_, _, _, _)
\* the statements of a setup hook from the i-th on
SetupSteps(w, a, plan, i) ==
    IF w.raised \/ i > Len(plan) THEN w
    ELSE SetupSteps(Kept(BusSubscribe(w, AgentHandler(plan[i].kind, a),
                                      TopicList({plan[i].topic}), plan[i].replay_last),
                         a, plan[i].field, NextSubId(w)),
                    a, plan, i + 1)

\* the setup hooks of the stages
Setup(w, a) == SetupSteps(w, a, SetupPlan(w.agentObjs[a].cls), 1)

\* ensure_setup after the setup hook returned or raised
SetupDone(w, a) == IF w.raised THEN w ELSE [w EXCEPT !.agentObjs[a].is_setup = TRUE]

\* BaseAgent.ensure_setup
EnsureSetup(w, a) == IF w.agentObjs[a].is_setup THEN w ELSE SetupDone(Setup(w, a), a)

RECURSIVE UnsubscribeAll(_, _, _)
UnsubscribeAll(w, ids, i) ==
    IF i > Len(ids) THEN w ELSE UnsubscribeAll(BusUnsubscribe(w, ids[i]), ids, i + 1)

\* the teardown hooks of the stages
Teardown(w, a) ==
    LET obj == w.agentObjs[a]
    IN  CASE obj.cls = "director" -> w
          [] obj.cls = "quant" ->
                [UnsubscribeAll(w, SelectSeq(<<obj.directive_subscription,
                                               obj.execution_subscription,
                                               obj.feedback_subscription>>,
                                             LAMBDA x : x # 0), 1)
                 EXCEPT !.agentObjs[a].directive_subscription = 0,
                        !.agentObjs[a].execution_subscription = 0,
                        !.agentObjs[a].feedback_subscription = 0]
          [] obj.cls = "risk" ->
                [UnsubscribeAll(w, obj.subscriptions, 1)
                 EXCEPT !.agentObjs[a].subscriptions = <<>>]
          [] obj.cls \in {"compliance", "execution"} ->
                IF obj.subscription = 0 THEN w
                ELSE [BusUnsubscribe(w, obj.subscription)
                      EXCEPT !.agentObjs[a].subscription = 0]

\* BaseAgent.shutdown
Shutdown(w, a) ==
    IF ~w.agentObjs[a].is_setup THEN w
    ELSE [Teardown(w, a) EXCEPT !.agentObjs[a].is_setup = FALSE]

\* the tick hooks of the stages
Tick(w, a) ==
    LET cls == w.agentObjs[a].cls
    IN  CASE cls = "director" -> DirectorTick(w, a, 1)
          [] cls = "risk" -> MaybeRunStressTest(w, a)
          [] OTHER -> w

\* run_tick after ensure_setup returned or raised
TickAfterSetup(w, a) == IF w.raised THEN w ELSE Tick(Logged(w, "tick", a, 0, <<>>), a)

\* BaseAgent.run_tick; the log tells that the tick hook was invoked
RunTick(w, a) == TickAfterSetup(EnsureSetup(w, a), a)

----------------------------------------------------------------------------
(* The runtime: agents/runtime.py *)

KillTopics == {"risk.kill_switch", "compliance.kill_switch", "runtime.kill_switch"}

KillHandler == [kind |-> "kill_signal", topic |-> ""]

NeverAlreadyEngaged(w, env) == FALSE

\* the guard of AgentRuntime._handle_kill_signal, lines 213-214
AlreadyEngaged(w, env) == Truthy(w.kill_switch_reason)

\* a kill handler that publishes the event again once it has latched it
HandleKillSignalRepublishing(w, env) ==
    IF AlreadyEngaged(w, env) THEN w
    ELSE LET raw_reason == Get(env.payload, "reason")
             reason == IF IsStr(raw_reason) /\ raw_reason.s # "" THEN raw_reason
                       ELSE Str("unspecified")
             w1 == [w EXCEPT !.kill_switch_reason = reason,
                             !.kill_switch_trigger = Str(env.topic)]
             w2 == AlertCall(Logged(w1, "engage", 0, env.id, <<>>), 0, "runtime_kill_switch",
                             [trigger |-> Str(env.topic), reason |-> reason,
                              payload |-> Dict(env.payload)],
                             "critical")
         IN  BusPublish([w2 EXCEPT !.stop_event = TRUE], env.topic, env.payload)

\* AgentRuntime._handle_kill_signal
HandleKillSignal(w, env) ==
    IF AlreadyEngaged(w, env) THEN w
    ELSE LET raw_reason == Get(env.payload, "reason")
             reason == IF IsStr(raw_reason) /\ raw_reason.s # "" THEN raw_reason
                       ELSE Str("unspecified")
             w1 == [w EXCEPT !.kill_switch_reason = reason,
                             !.kill_switch_trigger = Str(env.topic)]
             w2 == AlertCall(Logged(w1, "engage", 0, env.id, <<>>), 0, "runtime_kill_switch",
                             [trigger |-> Str(env.topic), reason |-> reason,
                              payload |-> Dict(env.payload)],
                             "critical")
         IN  [w2 EXCEPT !.stop_event = TRUE]

\* the handler is entered (history variable's content)
Called(w, id, env) == [w EXCEPT !.log = Append(@, LogEntry("call", id, env.id, <<>>))]

\* handler(envelope) for the subscription id: a handler of a caller of the bus,
\* of the runtime or of a stage
Invoke(w, id, env) ==
    CASE w.subObjs[id].handler.kind = "record" -> Called(w, id, env)
      [] w.subObjs[id].handler.kind = "publish" ->
            BusPublish(Called(w, id, env), w.subObjs[id].handler.topic, <<>>)
      [] w.subObjs[id].handler.kind = "unsubscribe_next" ->
            BusUnsubscribe(Called(w, id, env), id + 1)
      [] w.subObjs[id].handler.kind = "raise" ->
            [Called(w, id, env) EXCEPT !.raised = TRUE,
                                       !.log = Append(@, LogEntry("raise", id, env.id, <<>>))]
      [] w.subObjs[id].handler.kind = "kill_signal" ->
            HandleKillSignal(Called(w, id, env), env)
      [] w.subObjs[id].handler.kind = "directive" ->
            HandleDirective(Called(w, id, env), w.subObjs[id].handler.agent, env)
      [] w.subObjs[id].handler.kind = "execution_fill" ->
            HandleExecutionFill(Called(w, id, env), w.subObjs[id].handler.agent, env)
      [] w.subObjs[id].handler.kind = "strategy_feedback" ->
            HandleStrategyFeedback(Called(w, id, env), w.subObjs[id].handler.agent, env)
      [] w.subObjs[id].handler.kind = "snapshot" ->
            HandleSnapshot(Called(w, id, env), w.subObjs[id].handler.agent, env)
      [] w.subObjs[id].handler.kind = "proposal" ->
            HandleProposal(Called(w, id, env), w.subObjs[id].handler.agent, env)
      [] w.subObjs[id].handler.kind = "risk_approval" ->
            HandleRiskApproval(Called(w, id, env), w.subObjs[id].handler.agent, env)
      [] w.subObjs[id].handler.kind = "approval" ->
            HandleApproval(Called(w, id, env), w.subObjs[id].handler.agent, env)

\* AGENT_ENABLED and AGENT_PIPELINE as the modelled deployment sets them: the
\* five stages of the pipeline (the registry also holds audit and data_director)
EnabledAgents == <<"director", "quant", "risk", "compliance", "execution">>

Pipeline == <<"director", "quant", "risk", "compliance", "execution">>

\* AgentRuntime._order_agents
OrderAgents(agent_names) ==
    LET InNames(x) == \E k \in 1..Len(agent_names) : agent_names[k] = x
        first == SelectSeq(Pipeline, InNames)
        rest  == SelectSeq(agent_names, LAMBDA x : ~\E k \in 1..Len(first) : first[k] = x)
    IN  IF Pipeline = <<>> THEN agent_names ELSE first \o rest

RECURSIVE CreateAll(_, _, _)
CreateAll(w, names, i) ==
    IF i > Len(names) THEN w ELSE CreateAll(CreateAgent(w, names[i]), names, i + 1)

RECURSIVE SetupAll(_, _, _)
SetupAll(w, ids, i) ==
    IF w.raised \/ i > Len(ids) THEN w ELSE SetupAll(EnsureSetup(w, ids[i]), ids, i + 1)

\* the ids of the stage objects a bootstrap on world w creates
BootstrapAgents(w) ==
    [k \in 1..Len(OrderAgents(EnabledAgents)) |-> Len(w.agentObjs) + k]

\* AgentRuntime.bootstrap
Bootstrap(w) ==
    SetupAll(CreateAll(w, OrderAgents(EnabledAgents), 1), BootstrapAgents(w), 1)

RECURSIVE RunAgentsUntilRaise(_, _, _)
\* a loop over the stages that the first exception of a stage ends
RunAgentsUntilRaise(w, ids, i) ==
    IF w.raised \/ i > Len(ids) THEN [w EXCEPT !.raised = FALSE]
    ELSE RunAgentsUntilRaise(RunTick(w, ids[i]), ids, i + 1)

RECURSIVE RunAgents(_, _, _)
\* the loop of _run_iteration, lines 142-146: an exception of a stage is dropped,
\* so none is unwinding when a pass starts
RunAgents(w, ids, i) ==
    IF w.raised \/ i > Len(ids) THEN w
    ELSE RunAgents([RunTick(w, ids[i]) EXCEPT !.raised = FALSE], ids, i + 1)

SkipsNever(w) == FALSE

\* the guard of AgentRuntime._run_iteration, lines 139-141
Skips(w) == Truthy(w.kill_switch_reason)

\* AgentRuntime._run_iteration; tick_count is incremented by the caller's action
RunIteration(w, ids) ==
    IF Skips(w) THEN Logged(w, "skip", 0, 0, <<>>)
    ELSE Logged(RunAgents(Logged(w, "iteration", 0, 0, <<>>), ids, 1), "ticked", 0, 0, <<>>)

RECURSIVE ShutdownAll(_, _, _)
ShutdownAll(w, ids, i) ==
    IF i > Len(ids) THEN w ELSE ShutdownAll(Shutdown(w, ids[i]), ids, i + 1)

\* what DataIngestionService.get_market_snapshot returns for a symbol
Snapshot(latest_close, quote, fundamentals) ==
    [raises |-> FALSE, latest_close |-> latest_close, quote |-> quote,
     fundamentals |-> fundamentals]

Quote(c, pc) == [c |-> Num(RInt(c)), pc |-> Num(RInt(pc))]

Cheap == [PERatio |-> Num(RInt(10)), ProfitMargin |-> Num(Rat(1, 10))]

Expensive == [PERatio |-> Num(RInt(30)), ProfitMargin |-> Num(Rat(1, 10))]

Quiet == Snapshot(Num(RInt(100)), Quote(100, 100), <<>>)

NoPrice == Snapshot(None, <<>>, <<>>)

Failing == [raises |-> TRUE, latest_close |-> None, quote |-> <<>>, fundamentals |-> <<>>]

\* the markets a tick can see: what the ingestion service returns for each symbol
Markets ==
    {[SPY |-> Snapshot(Num(RInt(100)), Quote(100, 99), Cheap), QQQ |-> Quiet],
     [SPY |-> Snapshot(Num(RInt(250)), Quote(250, 100), Cheap), QQQ |-> Quiet],
     [SPY |-> Snapshot(Num(RInt(50)), Quote(50, 100), Expensive), QQQ |-> NoPrice],
     [SPY |-> Failing, QQQ |-> Quiet]}

Order(symbol, price, quantity) ==
    [proposal_id |-> Str("p1"), symbol |-> Str(symbol), price |-> Num(RInt(price)),
     quantity |-> Num(RInt(quantity))]

\* the events published on the runtime's bus from outside the stages
ExternalEvents ==
    {[topic |-> "risk.kill_switch", payload |-> [reason |-> Str("test_breach")]],
     [topic |-> "compliance.kill_switch", payload |-> <<>>],
     [topic |-> "runtime.kill_switch", payload |-> [reason |-> Str("")]],
     [topic |-> "quant.proposal", payload |-> Order("SPY", 100, 10)],
     [topic |-> "risk.approval", payload |-> Order("SPY", 100, 10)],
     [topic |-> "compliance.approval", payload |-> Order("SPY", 100, 10)]}

MaxTickRequests == 2

MaxExternal == 2

MaxLifecycle == 1

\* what a call on the runtime leaves behind in the bus, the ledger, the switch,
\* the stage objects and the tracker
RuntimeCommit(w) ==
    /\ Commit(w)
    /\ cash' = w.cash
    /\ realized_pnl' = w.realized_pnl
    /\ positions' = w.positions
    /\ kill_switch_reason' = w.kill_switch_reason
    /\ kill_switch_trigger' = w.kill_switch_trigger
    /\ stop_event' = w.stop_event
    /\ agentObjs' = w.agentObjs
    /\ tracker' = w.tracker
    /\ nextId' = w.nextId
    /\ UNCHANGED <<lastOp, fillSum, loaded, nOps, nPub, nUnsub>>

\* runtime.bus.publish(topic, payload) by a caller outside the stages
ExternalPublish(event) ==
    /\ nExt < MaxExternal
    /\ RuntimeCommit(BusPublish(Logged(World, "external", 0, nextEnv, <<>>),
                                event.topic, event.payload))
    /\ nExt' = nExt + 1
    /\ UNCHANGED <<kill_subscription, tick_count, thread, agents, nTick, nLife>>

\* run_once, line 127, on the stage objects ids, after the bootstrap it may have
\* needed returned or raised
RunOnceOn(w, ids) ==
    /\ RuntimeCommit(IF w.raised THEN w ELSE RunIteration(w, ids))
    /\ agents' = ids
    /\ tick_count' = IF w.raised \/ Skips(w) THEN tick_count ELSE tick_count + 1

\* AgentRuntime.run_once
RunOnce(market) ==
    /\ nTick < MaxTickRequests
    /\ RunOnceOn(IF agents = <<>> THEN Bootstrap([World EXCEPT !.market = market])
                 ELSE [World EXCEPT !.market = market],
                 IF agents = <<>> THEN BootstrapAgents(World) ELSE agents)
    /\ nTick' = nTick + 1
    /\ UNCHANGED <<kill_subscription, thread, nExt, nLife>>

\* AgentRuntime.bootstrap called directly
BootstrapCall ==
    /\ nLife < MaxLifecycle
    /\ RuntimeCommit(Bootstrap(World))
    /\ agents' = BootstrapAgents(World)
    /\ nLife' = nLife + 1
    /\ UNCHANGED <<kill_subscription, tick_count, thread, nTick, nExt>>

\* start, lines 108-110, after bootstrap returned or raised
Started(w) ==
    /\ RuntimeCommit(IF w.raised THEN w ELSE [w EXCEPT !.stop_event = FALSE])
    /\ thread' = IF w.raised THEN thread ELSE "alive"

\* AgentRuntime.start
Start ==
    /\ nLife < MaxLifecycle
    /\ nLife' = nLife + 1
    /\ IF thread = "alive"
       THEN UNCHANGED <<ledgerVars, busVars, kill_switch_reason, kill_switch_trigger,
                        kill_subscription, stop_event, tick_count, thread, agents, agentObjs,
                        tracker, nextId, nTick, nExt>>
       ELSE /\ Started(Bootstrap(World))
            /\ agents' = BootstrapAgents(World)
            /\ UNCHANGED <<kill_subscription, tick_count, nTick, nExt>>

\* one pass of the loop of AgentRuntime._run_loop (max_ticks is not configured)
LoopIteration(market) ==
    /\ thread = "alive"
    /\ ~stop_event
    /\ nTick < MaxTickRequests
    /\ RuntimeCommit(RunIteration([World EXCEPT !.market = market], agents))
    /\ tick_count' = IF Skips(World) THEN tick_count ELSE tick_count + 1
    /\ nTick' = nTick + 1
    /\ UNCHANGED <<kill_subscription, thread, agents, nExt, nLife>>

\* _run_loop leaves its while loop
LoopExit ==
    /\ thread = "alive"
    /\ stop_event
    /\ thread' = "ended"
    /\ UNCHANGED <<ledgerVars, busVars, kill_switch_reason, kill_switch_trigger,
                   kill_subscription, stop_event, tick_count, agents, agentObjs, tracker,
                   nextId, nTick, nExt, nLife>>

\* stop, lines 119-121
Unregistered(w) ==
    IF kill_subscription # 0 THEN BusUnsubscribe(w, kill_subscription) ELSE w

\* AgentRuntime.stop: the join waits for the loop to leave
Stop ==
    /\ nLife < MaxLifecycle
    /\ RuntimeCommit(Unregistered(ShutdownAll([World EXCEPT !.stop_event = TRUE], agents, 1)))
    /\ kill_subscription' = 0
    /\ thread' = IF thread = "alive" THEN "ended" ELSE thread
    /\ nLife' = nLife + 1
    /\ UNCHANGED <<tick_count, agents, nTick, nExt>>

DefaultMaxHistory == 512

\* the world AgentRuntime.__init__ starts from: a new MessageBus, the ledger it
\* is given, no stage objects, an empty tracker
NewWorld ==
    [history |-> <<>>, max_history |-> DefaultMaxHistory, subs |-> <<>>, subObjs |-> <<>>,
     nextEnv |-> 1, log |-> <<>>, raised |-> FALSE,
     cash |-> InitialCash, realized_pnl |-> RInt(0), positions |-> <<>>,
     kill_switch_reason |-> None, kill_switch_trigger |-> None,
     stop_event |-> FALSE, agentObjs |-> <<>>,
     tracker |-> [strategies |-> <<>>, last_realized_pnl |-> <<>>],
     nextId |-> 1, market |-> <<>>]

\* AgentRuntime._register_kill_switch
RegisterKillSwitch(w) == BusSubscribe(w, KillHandler, TopicList(KillTopics), 0)

\* the runtime variables while no runtime is looked at (SpecLedger, SpecBus)
NoRuntime ==
    /\ kill_switch_reason = None
    /\ kill_switch_trigger = None
    /\ kill_subscription = 0
    /\ stop_event = FALSE
    /\ tick_count = 0
    /\ thread = "none"
    /\ agents = <<>>
    /\ agentObjs = <<>>
    /\ tracker = [strategies |-> <<>>, last_realized_pnl |-> <<>>]
    /\ nextId = 1
    /\ nTick = 0
    /\ nExt = 0
    /\ nLife = 0

\* AgentRuntime.__init__
Init ==
    /\ LedgerInit
    /\ kill_switch_reason = None
    /\ kill_switch_trigger = None
    /\ kill_subscription = 1
    /\ stop_event = FALSE
    /\ tick_count = 0
    /\ thread = "none"
    /\ agents = <<>>
    /\ agentObjs = <<>>
    /\ tracker = NewWorld.tracker
    /\ nextId = 1
    /\ nTick = 0
    /\ nExt = 0
    /\ nLife = 0
    /\ max_history = DefaultMaxHistory
    /\ history = <<>>
    /\ nextEnv = 1
    /\ nPub = 0
    /\ nUnsub = 0
    /\ inflight = <<>>
    /\ \E w \in {RegisterKillSwitch(NewWorld)} :
          /\ subs = w.subs
          /\ subObjs = w.subObjs
          /\ log = w.log

Next ==
    \/ \E event \in ExternalEvents : ExternalPublish(event)
    \/ \E market \in Markets : RunOnce(market)
    \/ \E market \in Markets : LoopIteration(market)
    \/ BootstrapCall
    \/ Start
    \/ LoopExit
    \/ Stop

----------------------------------------------------------------------------
(* The council on its own: a StrategyCouncilAgent built with strategies given in *)
(* the extras of its context, set up on a bus, and sent directives.              *)

StubConfidences == {Rat(-3, 10), Rat(3, 10), Rat(8, 10)}

StubQuantities == {-1, 0, 2}

\* what the generate of a given strategy returns: None or a decision
StubReturns(name) ==
    {NoDecision} \cup
    {[raises |-> FALSE,
      decision |-> <<[strategy |-> name, symbol |-> Str("SPY"), action |-> act,
                      quantity |-> q, confidence |-> c, rationale |-> "stub"]>>] :
        act \in {"buy", "sell"}, q \in StubQuantities, c \in StubConfidences}

\* strategy_weights given in the extras for the first strategy (1.0: the default)
StubWeights == {RInt(1), RInt(-1)}

\* the council object __init__ leaves for the given strategies and weight
WithStrategies(obj, gs, weight) ==
    [obj EXCEPT !.strategy_weights = [@ EXCEPT ![StrategyNames[1]] = weight]]
        @@ [strategies |-> gs]

\* the bus and the council after the council is constructed and set up
CouncilWorld(gs, weight) ==
    EnsureSetup([CreateAgent(NewWorld, "quant") EXCEPT
                    !.agentObjs[1] = WithStrategies(@, gs, weight)], 1)

CouncilEvents ==
    {[topic |-> "director.directive",
      payload |-> [directive_id |-> Str("d1"), symbol |-> Str("spy"),
                   latest_close |-> Num(RInt(100))]],
     [topic |-> "director.directive",
      payload |-> [directive_id |-> Str("d2"), symbol |-> Str("SPY")]]}

InitCouncil ==
    /\ LedgerInit
    /\ kill_switch_reason = None
    /\ kill_switch_trigger = None
    /\ kill_subscription = 0
    /\ stop_event = FALSE
    /\ tick_count = 0
    /\ thread = "none"
    /\ agents = <<1>>
    /\ nTick = 0
    /\ nExt = 0
    /\ nLife = 0
    /\ max_history = DefaultMaxHistory
    /\ history = <<>>
    /\ nextEnv = 1
    /\ nPub = 0
    /\ nUnsub = 0
    /\ inflight = <<>>
    /\ \E g1 \in StubReturns(StrategyNames[1]), g2 \in StubReturns(StrategyNames[2]),
          g3 \in StubReturns(StrategyNames[3]), weight \in StubWeights :
          \E w \in {CouncilWorld(<<g1, g2, g3>>, weight)} :
              /\ subs = w.subs
              /\ subObjs = w.subObjs
              /\ log = w.log
              /\ agentObjs = w.agentObjs
              /\ tracker = w.tracker
              /\ nextId = w.nextId

CouncilNext == \E event \in CouncilEvents : ExternalPublish(event)

----------------------------------------------------------------------------
(* The risk engine on its own: a RiskAgent set up on the bus of a runtime that *)
(* has registered its kill listener, over a ledger loaded before it is built.  *)

RiskCash == {5, 1000}

RiskPositions == {<<>>, [SPY |-> [quantity |-> 10, average_cost |-> RInt(100)]]}

RiskFills == {-10, 10}

MaxRiskFills == 2

\* the bus, the kill listener and the risk engine after the engine is set up
RiskWorld(c, pos) ==
    EnsureSetup(CreateAgent([RegisterKillSwitch(NewWorld) EXCEPT !.cash = c,
                                                                !.positions = pos],
                            "risk"),
                1)

MarketSnapshot(symbol, latest_close) ==
    [topic |-> "market.snapshot",
     payload |-> [symbol |-> Str(symbol), latest_close |-> Num(RInt(latest_close))]]

RiskEvents ==
    {[topic |-> "quant.proposal", payload |-> Order("SPY", 1, 1)],
     [topic |-> "quant.proposal", payload |-> Order("SPY", 100, 1)],
     [topic |-> "quant.proposal",
      payload |-> [symbol |-> Str("SPY"), price |-> Num(RInt(100)),
                   quantity |-> Num(RInt(1))]],
     MarketSnapshot("SPY", 100),
     MarketSnapshot("SPY", 90)}

\* the position held in a symbol: <<>> or <<the position>>
Held(pos, symbol) == IF symbol \in DOMAIN pos THEN <<pos[symbol]>> ELSE <<>>

\* the entry of the log for a call that changed the ledger from outside the bus:
\* the symbol and the position it leaves
Ledgered(symbol, pos) ==
    LogEntry("fill", 0, 0, [symbol |-> symbol, position |-> Held(pos, symbol)])

\* store.apply_fill by the caller that owns the ledger
RiskFill(quantity) ==
    /\ nOps < MaxRiskFills
    /\ Filled("SPY", quantity, 100)
    /\ log' = Append(log, Ledgered("SPY", positions'))
    /\ UNCHANGED <<history, max_history, subs, subObjs, nextEnv, nPub, nUnsub, inflight,
                   runtimeVars>>

InitRisk ==
    /\ realized_pnl = RInt(0)
    /\ lastOp = [op |-> "init", symbol |-> "", quantity |-> 0, price |-> 0, raised |-> FALSE]
    /\ fillSum = 0
    /\ loaded = FALSE
    /\ nOps = 0
    /\ kill_switch_reason = None
    /\ kill_switch_trigger = None
    /\ kill_subscription = 1
    /\ stop_event = FALSE
    /\ tick_count = 0
    /\ thread = "none"
    /\ agents = <<1>>
    /\ nTick = 0
    /\ nExt = 0
    /\ nLife = 0
    /\ max_history = DefaultMaxHistory
    /\ history = <<>>
    /\ nextEnv = 1
    /\ nPub = 0
    /\ nUnsub = 0
    /\ inflight = <<>>
    /\ \E c \in RiskCash, pos \in RiskPositions :
          \E w \in {RiskWorld(c, pos)} :
              /\ cash = w.cash
              /\ positions = w.positions
              /\ subs = w.subs
              /\ subObjs = w.subObjs
              /\ log = Append(w.log, Ledgered("SPY", pos))
              /\ agentObjs = w.agentObjs
              /\ tracker = w.tracker
              /\ nextId = w.nextId

MaxRiskTicks == 4

\* AgentRuntime.run_once on the runtime whose only stage is the engine
RiskTick ==
    /\ nTick < MaxRiskTicks
    /\ RunOnceOn(World, agents)
    /\ nTick' = nTick + 1
    /\ UNCHANGED <<kill_subscription, thread, nExt, nLife>>

RiskNext ==
    \/ \E event \in RiskEvents : ExternalPublish(event)
    \/ \E quantity \in RiskFills : RiskFill(quantity)
    \/ RiskTick

----------------------------------------------------------------------------
(* The compliance gate and the execution stage on their own: both set up on the *)
(* bus of a runtime that has registered its kill listener, over a ledger loaded *)
(* before they are built, and sent risk approvals.                              *)

ComplianceCash == {1000}

CompliancePositions ==
    {<<>>,
     [SPY |-> [quantity |-> 10, average_cost |-> RInt(100)]],
     [SPY |-> [quantity |-> -10, average_cost |-> RInt(100)]]}

\* the bus, the kill listener, the gate (stage 1) and the execution stage (stage 2)
ComplianceWorld(c, pos) ==
    EnsureSetup(EnsureSetup(CreateAgent(CreateAgent([RegisterKillSwitch(NewWorld)
                                                         EXCEPT !.cash = c,
                                                                !.positions = pos],
                                                    "compliance"),
                                        "execution"),
                            1),
                2)

Approved(payload) == [topic |-> "risk.approval", payload |-> payload]

\* the risk approvals sent to the gate: within, at and above the concentration
\* limit, for a restricted symbol, with a prohibited tactic or an insider flag
\* (True is the number 1 for float() and for bool()), and without a price or an id
ComplianceEvents ==
    {Approved(Order("SPY", 100, 1)),
     Approved(Order("SPY", 100, 2)),
     Approved(Order("SPY", 100, 3)),
     Approved(Order("SPY", 100, 8)),
     Approved(Order("TSLA", 100, 1)),
     Approved([tactic |-> Str("Spoofing")] @@ Order("tsla", 100, 1000)),
     Approved([symbol |-> Str("TSLA"), proposal_id |-> Str("p1"),
                   price |-> Str("100"), quantity |-> Num(RInt(1))]),
     Approved([tactic |-> Str("Spoofing")] @@ Order("SPY", 100, 1)),
     Approved([notes |-> List(<<Str("insider tip")>>)] @@ Order("SPY", 100, 1)),
     Approved([mnpi_flag |-> Num(RInt(1))] @@ Order("SPY", 100, 1)),
     Approved([symbol |-> Str("SPY"), tactic |-> Str("Spoofing"),
                   price |-> Num(RInt(100)), quantity |-> Num(RInt(1))])}

InitCompliance ==
    /\ realized_pnl = RInt(0)
    /\ lastOp = [op |-> "init", symbol |-> "", quantity |-> 0, price |-> 0, raised |-> FALSE]
    /\ fillSum = 0
    /\ loaded = FALSE
    /\ nOps = 0
    /\ kill_switch_reason = None
    /\ kill_switch_trigger = None
    /\ kill_subscription = 1
    /\ stop_event = FALSE
    /\ tick_count = 0
    /\ thread = "none"
    /\ agents = <<1, 2>>
    /\ nTick = 0
    /\ nExt = 0
    /\ nLife = 0
    /\ max_history = DefaultMaxHistory
    /\ history = <<>>
    /\ nextEnv = 1
    /\ nPub = 0
    /\ nUnsub = 0
    /\ inflight = <<>>
    /\ \E c \in ComplianceCash, pos \in CompliancePositions :
          \E w \in {ComplianceWorld(c, pos)} :
              /\ cash = w.cash
              /\ positions = w.positions
              /\ subs = w.subs
              /\ subObjs = w.subObjs
              /\ log = w.log
              /\ agentObjs = w.agentObjs
              /\ tracker = w.tracker
              /\ nextId = w.nextId

ComplianceNext == \E event \in ComplianceEvents : ExternalPublish(event)

----------------------------------------------------------------------------
(* The stages on their own: the default pipeline after bootstrap, its handlers *)
(* sent events that lack a required field or carry it with another type.       *)

\* an event of a topic with the given fields
Event(topic, payload) == [topic |-> topic, payload |-> payload]

\* an order whose symbol is a number
NumberedOrder == [symbol |-> Num(RInt(7))] @@ Order("SPY", 100, 1)

\* an order whose price is a string
QuotedOrder == [price |-> Str("100")] @@ Order("SPY", 100, 1)

\* an order without an id
AnonymousOrder ==
    [symbol |-> Str("SPY"), price |-> Num(RInt(100)), quantity |-> Num(RInt(1))]

StageEvents ==
    {Event("director.directive", [latest_close |-> Num(RInt(100))]),
     Event("director.directive", [symbol |-> Num(RInt(7)), latest_close |-> Num(RInt(100))]),
     Event("director.directive", [symbol |-> Str("spy")]),
     Event("director.directive", [symbol |-> Str("spy"), latest_close |-> Str("100")]),
     Event("market.snapshot", [latest_close |-> Num(RInt(100))]),
     Event("market.snapshot", [symbol |-> Str("SPY"), latest_close |-> Str("100")]),
     Event("quant.proposal", NumberedOrder),
     Event("quant.proposal", QuotedOrder),
     Event("quant.proposal", AnonymousOrder),
     Event("risk.approval", NumberedOrder),
     Event("risk.approval", QuotedOrder),
     Event("risk.approval", AnonymousOrder),
     Event("compliance.approval", NumberedOrder),
     Event("compliance.approval", QuotedOrder),
     Event("compliance.approval", AnonymousOrder)}

\* AgentRuntime.__init__ followed by bootstrap
InitStages ==
    /\ LedgerInit
    /\ kill_subscription = 1
    /\ tick_count = 0
    /\ thread = "none"
    /\ nTick = 0
    /\ nExt = 0
    /\ nLife = 0
    /\ max_history = DefaultMaxHistory
    /\ nPub = 0
    /\ nUnsub = 0
    /\ inflight = <<>>
    /\ agents = BootstrapAgents(RegisterKillSwitch(NewWorld))
    /\ \E w \in {Bootstrap(RegisterKillSwitch(NewWorld))} :
          /\ history = w.history
          /\ nextEnv = w.nextEnv
          /\ subs = w.subs
          /\ subObjs = w.subObjs
          /\ log = w.log
          /\ kill_switch_reason = w.kill_switch_reason
          /\ kill_switch_trigger = w.kill_switch_trigger
          /\ stop_event = w.stop_event
          /\ agentObjs = w.agentObjs
          /\ tracker = w.tracker
          /\ nextId = w.nextId

StagesNext == \E event \in StageEvents : ExternalPublish(event)


(* The bootstrapped pipeline sent orders, snapshots and the other topics of   *)
(* the vocabulary from outside the stages                                     *)

\* an order that names a manipulative tactic
SpoofingOrder == [tactic |-> Str("Spoofing")] @@ Order("SPY", 100, 10)

\* a directive as the director publishes it for a cheap stock that gained on the day
Directive(symbol, latest_close) ==
    Event("director.directive",
          [directive_id |-> Str("d1"), symbol |-> Str(symbol),
           latest_close |-> Num(RInt(latest_close)),
           quote |-> Dict(Quote(latest_close, latest_close - 1)),
           fundamentals |-> Dict(Cheap)])

PipelineEvents ==
    {Event("quant.proposal", Order("SPY", 100, 10)),
     Event("quant.proposal", Order("SPY", 100, -10)),
     Event("quant.proposal", Order("SPY", 100, 2000)),
     Event("quant.proposal", Order("TSLA", 100, 1)),
     Event("quant.proposal", Order("SPY", 0, 1)),
     Event("quant.proposal", Order("SPY", -100, 1)),
     Event("quant.proposal", Order("SPY", 100, 0)),
     Event("quant.proposal", AnonymousOrder),
     Event("risk.approval", Order("SPY", 100, 10)),
     Event("risk.approval", Order("SPY", 100, 300)),
     Event("risk.approval", SpoofingOrder),
     Event("risk.approval", Order("SPY", 0, 1)),
     Event("risk.approval", Order("SPY", 100, 0)),
     Event("compliance.approval", Order("SPY", 100, 10)),
     Event("compliance.approval", Order("SPY", 0, 1)),
     Event("compliance.approval", Order("SPY", -100, 1)),
     Event("compliance.approval", Order("SPY", 100, 0)),
     Event("compliance.approval", QuotedOrder),
     Event("compliance.approval", AnonymousOrder),
     MarketSnapshot("SPY", 100),
     MarketSnapshot("SPY", 90),
     Directive("SPY", 100),
     Event("execution.fill", [strategies |-> List(<<>>)] @@ Order("SPY", 100, 10)),
     Event("strategy.feedback", [strategy |-> Str("momentum"), delta |-> Num(RInt(1))]),
     Event("strategy.proposal.momentum", Order("SPY", 100, 10)),
     Event("risk.stop_loss", [symbol |-> Str("SPY")]),
     Event("risk.kill_switch", [reason |-> Str("test_breach")])}

PipelineNext == \E event \in PipelineEvents : ExternalPublish(event)

----------------------------------------------------------------------------
(* The locks: the RLock of the bus, of the ledger and of the tracker, taken by *)
(* threads that call publish, subscribe, unsubscribe, apply_fill and snapshot. *)
(* A call is the sequence of its statements, those of the handlers it invokes  *)
(* included; a with block is an acquire, its body and a release.               *)

LockThreads == 2

MaxLockCalls == 4

Locks == {"bus", "ledger", "tracker"}

\* one statement: acquire or release a lock, enter a method of the bus, invoke
\* a handler, or run code that touches no lock
Ins(do, x) == [do |-> do, x |-> x]

\* with self._lock: body
WithLock(lock, body) == <<Ins("acq", lock)>> \o body \o <<Ins("rel", lock)>>

\* PortfolioStore.snapshot
SnapshotProgram == WithLock("ledger", <<Ins("run", "snapshot")>>)

\* PortfolioStore.apply_fill: _persist, inside the with block, takes the lock
\* again through snapshot_dict and snapshot
ApplyFillProgram == WithLock("ledger", <<Ins("run", "apply_fill")>> \o SnapshotProgram)

\* PerformanceTracker.record_fill and the to_dict of its _persist
RecordFillProgram ==
    WithLock("tracker", <<Ins("run", "record_fill")>>)
        \o WithLock("tracker", <<Ins("run", "to_dict")>>)

\* StrategyCouncilAgent._refresh_strategy_state: tracker.snapshot(), tracker.weights()
RefreshProgram ==
    WithLock("tracker", <<Ins("run", "snapshot")>>)
        \o WithLock("tracker", <<Ins("run", "weights")>>)

\* a publish whose handler call is made inside the with block of the bus
PublishProgramLocked(handler) ==
    <<Ins("enter", "publish")>>
        \o WithLock("bus", <<Ins("run", "append")>> \o <<Ins("invoke", "handler")>> \o handler)

\* MessageBus.publish with one matching subscriber, whose handler runs the
\* given statements
PublishProgram(handler) ==
    <<Ins("enter", "publish")>>
        \o WithLock("bus", <<Ins("run", "append")>>)
        \o <<Ins("invoke", "handler")>> \o handler

\* StrategyCouncilAgent._handle_execution_fill
OnExecutionFill == RecordFillProgram \o RefreshProgram

\* ExecutionAgent._handle_approval
OnComplianceApproval == ApplyFillProgram \o PublishProgram(OnExecutionFill)

\* ComplianceAgent._handle_risk_approval, the proposal being approved
OnRiskApproval == SnapshotProgram \o PublishProgram(OnComplianceApproval)

\* MessageBus.subscribe with replay_last > 0 and a retained envelope that
\* matches: the handler is RiskAgent._handle_snapshot, which reads the ledger
SubscribeProgram ==
    <<Ins("enter", "subscribe")>>
        \o WithLock("bus", <<Ins("run", "register")>>)
        \o <<Ins("invoke", "handler")>> \o SnapshotProgram

\* MessageBus.unsubscribe
UnsubscribeProgram == WithLock("bus", <<Ins("run", "pop")>>)

LockCalls == {"publish", "subscribe", "unsubscribe", "apply_fill", "snapshot"}

\* the statements of a call made by a thread
ProgramOf(call) ==
    CASE call = "publish" -> PublishProgram(OnRiskApproval)
      [] call = "subscribe" -> SubscribeProgram
      [] call = "unsubscribe" -> UnsubscribeProgram
      [] call = "apply_fill" -> ApplyFillProgram
      [] call = "snapshot" -> SnapshotProgram

\* a thread that is in no call
Idle == [prog |-> <<>>, pc |-> 1, held |-> [l \in Locks |-> 0]]

Busy(t) == inflight[t].prog # <<>>

\* the statement thread t is about to execute
Current(t) == inflight[t].prog[inflight[t].pc]

\* an RLock can be taken by the thread that holds it or when no thread holds it
CanStep(t) ==
    /\ Busy(t)
    /\ Current(t).do = "acq" =>
          \A u \in 1..LockThreads : u # t => inflight[u].held[Current(t).x] = 0

\* what the statement leaves of the locks the thread holds
HeldAfter(t) ==
    CASE Current(t).do = "acq" -> [inflight[t].held EXCEPT ![Current(t).x] = @ + 1]
      [] Current(t).do = "rel" -> [inflight[t].held EXCEPT ![Current(t).x] = @ - 1]
      [] OTHER -> inflight[t].held

InitLocks ==
    /\ LedgerInit
    /\ NoRuntime
    /\ history = <<>>
    /\ max_history = DefaultMaxHistory
    /\ subs = <<>>
    /\ subObjs = <<>>
    /\ nextEnv = 1
    /\ log = <<>>
    /\ nPub = 0
    /\ nUnsub = 0
    /\ inflight = [t \in 1..LockThreads |-> Idle]

\* a thread starts a call
LockCall(t, call) ==
    /\ ~Busy(t)
    /\ nPub < MaxLockCalls
    /\ nPub' = nPub + 1
    /\ inflight' = [inflight EXCEPT ![t] = [Idle EXCEPT !.prog = ProgramOf(call)]]
    /\ UNCHANGED <<history, max_history, subs, subObjs, nextEnv, log, nUnsub,
                   ledgerVars, runtimeVars>>

\* a thread executes its next statement; after the last one the call returns
LockStep(t) ==
    /\ CanStep(t)
    /\ inflight' =
          [inflight EXCEPT ![t] =
              IF inflight[t].pc = Len(inflight[t].prog) THEN Idle
              ELSE [inflight[t] EXCEPT !.pc = @ + 1, !.held = HeldAfter(t)]]
    /\ UNCHANGED <<history, max_history, subs, subObjs, nextEnv, log, nPub, nUnsub,
                   ledgerVars, runtimeVars>>

LocksNext ==
    \/ \E t \in 1..LockThreads, call \in LockCalls : LockCall(t, call)
    \/ \E t \in 1..LockThreads : LockStep(t)

----------------------------------------------------------------------------
(* The tracker on its own: a PerformanceTracker that starts empty and is sent *)
(* fills and feedback.                                                        *)

MaxTrackerCalls == 3

TrackerConfidences == {RInt(-3), Rat(8, 10), RInt(5)}

TrackerPnls == {-20000, 20000}

TrackerDeltas == {RInt(-3), Rat(1, 20), RInt(3)}

TrackerNames == {"momentum", "value"}

\* an entry of the strategies of a fill
Contribution(name, confidence) ==
    Dict([strategy |-> Str(name), confidence |-> Num(confidence)])

\* the fills recorded: one or two contributing strategies, with or without the
\* realized pnl of the ledger
TrackerFills ==
    {[strategies |-> List(<<Contribution("momentum", c)>>),
      portfolio |-> Dict([realized_pnl |-> Num(RInt(pnl))])] :
         c \in TrackerConfidences, pnl \in TrackerPnls}
    \cup {[strategies |-> List(<<Contribution("momentum", c), Contribution("value", c)>>),
           portfolio |-> Dict([realized_pnl |-> Num(RInt(pnl))])] :
              c \in TrackerConfidences, pnl \in TrackerPnls}
    \cup {[strategies |-> List(<<Contribution("value", c)>>)] : c \in TrackerConfidences}

InitTracker ==
    /\ LedgerInit
    /\ BusInit(DefaultMaxHistory)
    /\ NoRuntime

\* tracker.record_fill(payload)
TrackerRecordFill(payload) ==
    /\ nExt < MaxTrackerCalls
    /\ tracker' = RecordFill(tracker, payload)
    /\ nExt' = nExt + 1
    /\ UNCHANGED <<ledgerVars, busVars, kill_switch_reason, kill_switch_trigger,
                   kill_subscription, stop_event, tick_count, thread, agents, agentObjs,
                   nextId, nTick, nLife>>

\* tracker.apply_feedback(strategy, delta)
TrackerApplyFeedback(strategy, delta) ==
    /\ nExt < MaxTrackerCalls
    /\ tracker' = ApplyFeedback(tracker, strategy, delta)
    /\ nExt' = nExt + 1
    /\ UNCHANGED <<ledgerVars, busVars, kill_switch_reason, kill_switch_trigger,
                   kill_subscription, stop_event, tick_count, thread, agents, agentObjs,
                   nextId, nTick, nLife>>

TrackerNext ==
    \/ \E payload \in TrackerFills : TrackerRecordFill(payload)
    \/ \E strategy \in TrackerNames, delta \in TrackerDeltas :
          TrackerApplyFeedback(strategy, delta)

----------------------------------------------------------------------------
(* Claims about the consensus of the council (SpecCouncil) *)

\* the strategies of the council that return a decision, and the decision
Votes ==
    {k \in 1..Len(agentObjs[1].strategies) : agentObjs[1].strategies[k].decision # <<>>}

VoteOf(k) == agentObjs[1].strategies[k].decision[1]

VotesFor(act) == {k \in Votes : VoteOf(k).action = act}

VotedActions == {VoteOf(k).action : k \in Votes}

\* max(0, strategy_weight) * max(0, confidence) of one vote
Support(k) ==
    RMul(RMax(RInt(0), agentObjs[1].strategy_weights[VoteOf(k).strategy]),
         RMax(RInt(0), VoteOf(k).confidence))

RECURSIVE SupportOf(_)
SupportOf(S) ==
    IF S = {} THEN RInt(0)
    ELSE LET k == CHOOSE x \in S : TRUE IN RAdd(Support(k), SupportOf(S \ {k}))

WeightSum(act) == SupportOf(VotesFor(act))

RECURSIVE MagnitudeOf(_)
MagnitudeOf(S) ==
    IF S = {} THEN 0
    ELSE LET k == CHOOSE x \in S : TRUE IN Abs(VoteOf(k).quantity) + MagnitudeOf(S \ {k})

\* round(mean |decision.quantity|) over the votes for the action
RoundedMean(act) ==
    RoundHalfEven(Rat(MagnitudeOf(VotesFor(act)), Cardinality(VotesFor(act))))

\* (weight_sum, count) of a is lexicographically below that of b
Below(a, b) ==
    \/ RLt(WeightSum(a), WeightSum(b))
    \/ /\ WeightSum(a) = WeightSum(b)
       /\ Cardinality(VotesFor(a)) < Cardinality(VotesFor(b))

Leads(act) == act \in VotedActions /\ \A b \in VotedActions : ~Below(act, b)

Supported(act) ==
    Cardinality(VotesFor(act)) >= 2 \/ RLe(Rat(6, 10), WeightSum(act))

DefaultWeights ==
    \A name \in DOMAIN agentObjs[1].strategy_weights :
        agentObjs[1].strategy_weights[name] = RInt(1)

\* the directives in the history, and the quant.proposal envelopes published
\* while each was handled
Directives == {k \in 1..Len(history) : history[k].topic = "director.directive"}

WellFormed(k) ==
    /\ "symbol" \in DOMAIN history[k].payload
    /\ "latest_close" \in DOMAIN history[k].payload

Answers(k) ==
    {j \in (k + 1)..Len(history) :
        /\ history[j].topic = "quant.proposal"
        /\ \A m \in (k + 1)..j : m \notin Directives}

TwoBuyVotes ==
    /\ DefaultWeights
    /\ Cardinality(Votes) = 2
    /\ \A k \in Votes :
           /\ VoteOf(k).action = "buy"
           /\ VoteOf(k).confidence = Rat(8, 10)
           /\ VoteOf(k).quantity # 0

SplitVotes ==
    /\ DefaultWeights
    /\ Cardinality(Votes) = 2
    /\ VotedActions = {"buy", "sell"}
    /\ \A k \in Votes : VoteOf(k).confidence = Rat(3, 10)

\* C12: the council publishes a quant.proposal only for an action whose group of
\* votes has count >= min_support (2) or weight_sum >= weight_threshold (0.6),
\* and nothing when the leading groups fail both; with the default weights two
\* buy votes of confidence 0.8 (of quantities that are not zero) get a buy
\* proposal, and one buy vote against one sell vote, both of confidence 0.3,
\* get none.
C12_ProposalRequiresAlignment ==
    \A k \in Directives :
        /\ \A j \in Answers(k) : Supported(history[j].payload.action.s)
        /\ (\A act \in VotedActions : Leads(act) => ~Supported(act)) => Answers(k) = {}
        /\ (TwoBuyVotes /\ WellFormed(k))
              => \E j \in Answers(k) : history[j].payload.action = Str("buy")
        /\ SplitVotes => Answers(k) = {}

C12_Witness ==
    /\ TwoBuyVotes
    /\ \E k \in Directives : \E j \in Answers(k) : history[j].payload.action = Str("buy")

\* C13: the action of a published quant.proposal is one whose (weight_sum, count)
\* is lexicographically maximal among the groups of votes, weight_sum being the
\* sum of max(0, strategy_weight) * max(0, confidence); with no decision there
\* is no proposal.
C13_ConsensusIsLexicographicMaximum ==
    \A k \in Directives :
        /\ \A j \in Answers(k) : Leads(history[j].payload.action.s)
        /\ Cardinality(Answers(k)) <= 1
        /\ Votes = {} => Answers(k) = {}

\* a proposal for the group of fewer votes and more weight, a negative strategy
\* weight counting as zero
C13_Witness ==
    /\ ~DefaultWeights
    /\ \E k \in Directives : \E j \in Answers(k) :
           \E b \in VotedActions :
               /\ Cardinality(VotesFor(history[j].payload.action.s)) < Cardinality(VotesFor(b))
               /\ RLt(WeightSum(b), WeightSum(history[j].payload.action.s))

\* C14: a published quant.proposal has an integer quantity that is not zero, of
\* magnitude round(mean |decision.quantity|) over the winning group, negative
\* exactly when the action is sell and positive when it is buy, and a confidence
\* min(1.0, weight_sum) within [0, 1]; a rounded magnitude of 0 gives no proposal.
C14_QuantityAndConfidence ==
    \A k \in Directives : \A j \in Answers(k) :
        /\ IsNum(history[j].payload.quantity)
        /\ history[j].payload.quantity.d = 1
        /\ history[j].payload.quantity.n # 0
        /\ Abs(history[j].payload.quantity.n) = RoundedMean(history[j].payload.action.s)
        /\ RoundedMean(history[j].payload.action.s) # 0
        /\ history[j].payload.quantity.n < 0 <=> history[j].payload.action = Str("sell")
        /\ history[j].payload.action = Str("buy") => history[j].payload.quantity.n > 0
        /\ NumOf(history[j].payload.confidence)
              = RMin(RInt(1), WeightSum(history[j].payload.action.s))
        /\ RLe(RInt(0), NumOf(history[j].payload.confidence))
        /\ RLe(NumOf(history[j].payload.confidence), RInt(1))

\* a sell proposal of quantity -2 for votes of quantities -1 and 2,
\* with the confidence capped at 1.0
C14_Witness ==
    \E k \in Directives : \E j \in Answers(k) :
        /\ history[j].payload.action = Str("sell")
        /\ history[j].payload.quantity = Num(RInt(-2))
        /\ \E v \in VotesFor("sell") : Abs(VoteOf(v).quantity) = 1
        /\ history[j].payload.confidence = Num(RInt(1))
        /\ RLt(RInt(1), WeightSum("sell"))

----------------------------------------------------------------------------
(* Claims about the risk engine (SpecRisk) *)

\* the envelope the publish call of the step retains first, and the envelopes
\* of a topic retained during the step
Handled == history'[Len(history) + 1]

NewEnvelopes(topic) ==
    {j \in (Len(history) + 1)..Len(history') : history'[j].topic = topic}

\* the step is a publish of a quant.proposal that has its four fields
ProposalStep ==
    /\ nExt' = nExt + 1
    /\ Handled.topic = "quant.proposal"
    /\ {"proposal_id", "symbol", "price", "quantity"} \subseteq DOMAIN Handled.payload

\* |quantity * price| of a proposal
Notional(payload) == RAbs(RMul(NumOf(payload.quantity), NumOf(payload.price)))

\* the exposure of a held symbol at its latest price, or at cost when the
\* engine has seen no price for it
Exposure(s) ==
    RMul(RInt(positions[s].quantity),
         IF s \in DOMAIN agentObjs[1].latest_prices THEN agentObjs[1].latest_prices[s]
         ELSE positions[s].average_cost)

RECURSIVE ExposureSum(_)
ExposureSum(S) ==
    IF S = {} THEN RInt(0)
    ELSE LET s == CHOOSE x \in S : TRUE IN RAdd(Exposure(s), ExposureSum(S \ {s}))

NavNow == RAdd(RInt(cash), ExposureSum(DOMAIN positions))

ExposureAfter(s, payload) ==
    RAdd(IF s \in DOMAIN positions THEN Exposure(s) ELSE RInt(0),
         IF s = payload.symbol.s THEN RMul(NumOf(payload.quantity), NumOf(payload.price))
         ELSE RInt(0))

RECURSIVE GrossAfter(_, _)
GrossAfter(S, payload) ==
    IF S = {} THEN RInt(0)
    ELSE LET s == CHOOSE x \in S : TRUE
         IN  RAdd(RAbs(ExposureAfter(s, payload)), GrossAfter(S \ {s}, payload))

\* projected gross leverage: sum |exposure| / max(nav, 1) with the order added
ProjectedLeverage(payload) ==
    RDiv(GrossAfter(DOMAIN positions \cup {payload.symbol.s}, payload),
         RMax(NavNow, RInt(1)))

RiskMetrics(j) == history[j].payload.risk_metrics.m

\* C15: for every well-formed quant.proposal and every ledger state (also one
\* whose cash * max_position_pct is below 1), a notional |quantity * price|
\* above cash * max_position_pct gets no risk.approval, and an approval carries
\* nav, leverage and var_pct (the variance it is the scaled root of).
C15_NotionalAboveCashShare ==
    [][ProposalStep =>
          /\ RLt(RMul(RInt(cash), RiskMaxPositionPct), Notional(Handled.payload))
               => NewEnvelopes("risk.approval") = {}
          /\ \A j \in NewEnvelopes("risk.approval") :
                {"nav", "leverage", "variance"}
                    \subseteq DOMAIN history'[j].payload.risk_metrics.m]_vars

\* the proposal of the step fails the notional rule or the leverage rule of
\* _handle_proposal
FailsRule ==
    \/ RLt(RMax(RInt(1), RMul(RInt(cash), RiskMaxPositionPct)), Notional(Handled.payload))
    \/ RLt(MaxLeverage, ProjectedLeverage(Handled.payload))

Reported(t) ==
    \E i \in (Len(log) + 1)..Len(log') :
        /\ log'[i].t = t
        /\ log'[i].x.action = "risk_reject"

\* C16: every proposal that fails a risk rule gets an explicit reject event
\* published on the bus topic risk.reject, with an audit and an alert, and no
\* risk.approval.
C16_RejectIsPublished ==
    [][(ProposalStep /\ FailsRule) =>
          /\ NewEnvelopes("risk.reject") # {}
          /\ Reported("audit")
          /\ Reported("alert")
          /\ NewEnvelopes("risk.approval") = {}]_vars

\* C17: a proposal whose projected gross leverage is above max_leverage gets no
\* risk.approval, and every risk.approval carries a leverage <= max_leverage.
C17_NoApprovalAboveMaxLeverage ==
    /\ [](\A j \in 1..Len(history) :
             history[j].topic = "risk.approval"
                 => RLe(NumOf(RiskMetrics(j).leverage), MaxLeverage))
    /\ [][ProposalStep =>
            /\ RLt(MaxLeverage, ProjectedLeverage(Handled.payload))
                 => NewEnvelopes("risk.approval") = {}
            /\ \A j \in NewEnvelopes("risk.approval") :
                  NumOf(history'[j].payload.risk_metrics.m.leverage)
                      = ProjectedLeverage(Handled.payload)]_vars

\* a proposal within the notional limit was rejected for its leverage, and
\* another one was approved
C17_Witness ==
    /\ \E i \in 1..Len(log) :
          /\ log[i].t = "audit"
          /\ log[i].x.action = "risk_reject"
          /\ log[i].x.payload.reason = Str("gross_leverage_limit")
    /\ \E j \in 1..Len(history) : history[j].topic = "risk.approval"

\* the deliveries of a market.snapshot to the risk engine, in the log
SnapshotCalls ==
    {i \in 1..Len(log) : log[i].t = "call" /\ subObjs[log[i].sub].handler.kind = "snapshot"}

SnapshotOf(i) == history[log[i].env].payload

\* the position held in the symbol of snapshot i when it is delivered: what the
\* last call on the ledger before it left
HeldAt(i) ==
    log[CHOOSE k \in 1..(i - 1) :
            /\ log[k].t = "fill"
            /\ log[k].x.symbol = SnapshotOf(i).symbol.s
            /\ \A m \in (k + 1)..(i - 1) : log[m].t # "fill"].x.position

\* (price - avg_cost) / avg_cost * sign(quantity) is at or below -stop_loss_pct
MovedAgainst(position, price) ==
    /\ position.quantity # 0
    /\ position.average_cost.n > 0
    /\ RLe(RMul(RDiv(RSub(price, position.average_cost), position.average_cost),
                RInt(IF position.quantity > 0 THEN 1 ELSE -1)),
           RNeg(StopLossPct))

BreachedAt(i) ==
    HeldAt(i) # <<>> /\ MovedAgainst(HeldAt(i)[1], NumOf(SnapshotOf(i).latest_close))

\* the position was flat at some time between the log positions k and i
FlatBetween(k, i) ==
    \E m \in (k + 1)..(i - 1) : log[m].t = "fill" /\ log[m].x.position = <<>>

\* snapshot i opens a breach episode: the position is breached, and it was not
\* at the snapshot before, or it was closed since
OpensEpisode(i) ==
    /\ BreachedAt(i)
    /\ \A k \in SnapshotCalls :
          (k < i /\ \A m \in SnapshotCalls : m < i => m <= k)
              => (~BreachedAt(k) \/ FlatBetween(k, i))

\* the risk.stop_loss events published while snapshot i is handled
StopLossesAt(i) ==
    {m \in (i + 1)..Len(log) :
        /\ log[m].t = "pub"
        /\ history[log[m].env].topic = "risk.stop_loss"
        /\ \A n \in (i + 1)..m : n \notin SnapshotCalls}

\* C18: a position that has moved against its entry beyond stop_loss_pct gets
\* exactly one risk.stop_loss per breach episode: none while it stays breached,
\* and a new one after it is fully closed, re-opened and breached again, also
\* when no snapshot of the symbol arrives while it is flat.
C18_OneStopLossPerEpisode ==
    \A i \in SnapshotCalls :
        Cardinality(StopLossesAt(i)) = IF OpensEpisode(i) THEN 1 ELSE 0

\* the step is a publish of a market.snapshot that has its two fields
SnapshotStep ==
    /\ nExt' = nExt + 1
    /\ Handled.topic = "market.snapshot"
    /\ {"symbol", "latest_close"} \subseteq DOMAIN Handled.payload

\* the value of a held symbol once the snapshot of the step is taken in
ValueAfter(s) ==
    IF s = Handled.payload.symbol.s
    THEN RMul(RInt(positions[s].quantity), NumOf(Handled.payload.latest_close))
    ELSE Exposure(s)

RECURSIVE ValueSum(_)
ValueSum(S) ==
    IF S = {} THEN RInt(0)
    ELSE LET s == CHOOSE x \in S : TRUE IN RAdd(ValueAfter(s), ValueSum(S \ {s}))

\* the NAV the snapshot of the step shows, and the NAV observed before it
NavShown == RAdd(RInt(cash), ValueSum(DOMAIN positions))

PreviousNav == agentObjs[1].nav_history[Len(agentObjs[1].nav_history)]

\* the NAV shown is a loss of more than nav_hard_stop_pct of a positive previous NAV
LossExceedsHardStop ==
    /\ agentObjs[1].nav_history # <<>>
    /\ PreviousNav.n > 0
    /\ RLt(NavHardStopPct, RDiv(RSub(PreviousNav, NavShown), PreviousNav))

\* C19: whenever a snapshot shows a NAV that is a loss of more than
\* nav_hard_stop_pct against the NAV observed before it, risk.kill_switch is
\* published while the snapshot is handled, and the kill switch of the runtime
\* is engaged when the publish of the snapshot returns.
C19_HardStopOnLoss ==
    [][(SnapshotStep /\ LossExceedsHardStop) =>
          /\ NewEnvelopes("risk.kill_switch") # {}
          /\ Truthy(kill_switch_reason')]_vars

\* the switch was engaged by the hard stop of a loss
C19_Witness ==
    /\ kill_switch_reason = Str("daily_loss_hard_stop")
    /\ kill_switch_trigger = Str("risk.kill_switch")
    /\ \E j \in 1..Len(history) :
          /\ history[j].topic = "risk.kill_switch"
          /\ RLt(NumOf(history[j].payload.daily_change_pct), RNeg(NavHardStopPct))

\* the step is a run_once whose iteration is not skipped: the engine is ticked
TickStep == nTick' = nTick + 1 /\ ~Truthy(kill_switch_reason)

\* the number of ticks the engine has had once the step is over
TicksAfter == Cardinality({i \in 1..Len(log') : log'[i].t = "tick" /\ log'[i].sub = 1})

\* the stress test ran during the step: its run is audited
StressRan ==
    \E i \in (Len(log) + 1)..Len(log') :
        log'[i].t = "audit" /\ log'[i].x.action = "risk_stress_run"

\* pnl_pct of a scenario on the ledger of the step
ShockedPnlPct(k) ==
    RDiv(RMul(ExposureSum(DOMAIN positions), StressScenarios[k].shock_pct),
         RMax(NavNow, RInt(1)))

\* the scenarios whose loss reaches the threshold, and those of lowest pnl_pct
BreachingScenarios ==
    {k \in 1..Len(StressScenarios) : RLe(ShockedPnlPct(k), RNeg(StressLossThresholdPct))}

LowestScenarios ==
    {k \in 1..Len(StressScenarios) :
        \A j \in 1..Len(StressScenarios) : RLe(ShockedPnlPct(k), ShockedPnlPct(j))}

CriticalStressAlert ==
    \E i \in (Len(log) + 1)..Len(log') :
        /\ log'[i].t = "alert"
        /\ log'[i].x.action = "risk_stress_breach"
        /\ log'[i].x.severity = "critical"

----------------------------------------------------------------------------
(* Specifications *)

InitLedger == LedgerInit /\ BusInit(MaxHistory) /\ NoRuntime

SpecLedger == InitLedger /\ [][LedgerNext]_vars

InitBus == LedgerInit /\ BusInit(MaxHistory) /\ NoRuntime

SpecBus == InitBus /\ [][BusNext]_vars

SpecBusThreads == InitBus /\ [][ThreadsNext]_vars

InitRace ==
    /\ LedgerInit
    /\ NoRuntime
    /\ history = <<>>
    /\ max_history = MaxHistory
    /\ subs = <<>>
    /\ subObjs = <<>>
    /\ nextEnv = 1
    /\ log = <<>>
    /\ nPub = 0
    /\ nUnsub = 0
    /\ inflight = NoCalls

SpecBusRace == InitRace /\ [][RaceNext]_vars

SpecCouncil == InitCouncil /\ [][CouncilNext]_vars

SpecRisk == InitRisk /\ [][RiskNext]_vars

SpecCompliance == InitCompliance /\ [][ComplianceNext]_vars

SpecStages == InitStages /\ [][StagesNext]_vars

SpecPipeline == InitStages /\ [][PipelineNext]_vars

SpecLocks == InitLocks /\ [][LocksNext]_vars

SpecTracker == InitTracker /\ [][TrackerNext]_vars

Spec == Init /\ [][Next]_vars

----------------------------------------------------------------------------
(* Claims about the ledger, checked under SpecLedger *)

\* the quantity held in a symbol, 0 when the symbol has no entry
SignOf(x) == IF x > 0 THEN 1 ELSE IF x < 0 THEN -1 ELSE 0

FillDone == lastOp'.op = "apply_fill" /\ ~lastOp'.raised

\* C4: after N successful apply_fill calls on a ledger that started with
\* initial_cash (and was not bulk-loaded), cash = initial_cash - sum(quantity_i *
\* price_i); realized_pnl changes only in a fill whose sign is opposite to a
\* non-zero existing position in the same symbol.
C4_CashAndRealizedPnl ==
    /\ [](~loaded => cash = InitialCash - fillSum)
    /\ [][realized_pnl' # realized_pnl =>
            /\ FillDone
            /\ HeldQty(positions, lastOp'.symbol) # 0
            /\ SignOf(HeldQty(positions, lastOp'.symbol)) = -SignOf(lastOp'.quantity)]_vars

C4_Witness ==
    /\ ~loaded
    /\ nOps >= 2
    /\ fillSum # 0
    /\ realized_pnl # RInt(0)
    /\ lastOp.op = "apply_fill" /\ ~lastOp.raised

\* C5: apply_fill with quantity = 0 or price <= 0 raises and leaves cash,
\* realized_pnl and the whole position table as they were.
C5_BadFillRejected ==
    [][(lastOp'.op = "apply_fill" /\ (lastOp'.quantity = 0 \/ lastOp'.price <= 0)) =>
          /\ lastOp'.raised
          /\ cash' = cash
          /\ realized_pnl' = realized_pnl
          /\ positions' = positions]_vars

C5_Witness ==
    /\ lastOp.op = "apply_fill"
    /\ lastOp.raised
    /\ lastOp.quantity = 0
    /\ positions # <<>>
    /\ cash # InitialCash

\* The reference algorithm of the specification, on the position held before the fill.
RefRealized(e, avg, q, p) ==
    IF e # 0 /\ SignOf(e) # SignOf(q)
    THEN RMul(RSub(RInt(p), avg), RInt(Min(Abs(e), Abs(q)) * SignOf(e)))
    ELSE RInt(0)

RefExtends(e, q) == e = 0 \/ SignOf(e) = SignOf(q)

RefPartialClose(e, q) == e # 0 /\ SignOf(e) # SignOf(q) /\ Abs(q) < Abs(e)

RefWeightedAverage(e, avg, q, p) ==
    IF e = 0 THEN RInt(p)
    ELSE RDiv(RAdd(RMul(avg, RInt(e)), RInt(p * q)), RInt(e + q))

\* C6: for every existing position and every fill with quantity # 0 and price > 0,
\* new quantity = existing + quantity; realized P&L grows by (price - average_cost)
\* * min(|existing|, |quantity|) * sign(existing) when the signs differ and by 0
\* otherwise; average_cost is the quantity-weighted average when the fill extends
\* the direction or opens from flat and the prior average_cost on a partial close;
\* buy 10 @100 then sell 5 @110 from 100000 gives cash 99550, realized_pnl 50,
\* position 5 @100.
C6_FillMatchesReference ==
    [][FillDone =>
        LET s   == lastOp'.symbol
            q   == lastOp'.quantity
            p   == lastOp'.price
            e   == HeldQty(positions, s)
            avg == IF s \in DOMAIN positions THEN positions[s].average_cost ELSE RInt(p)
        IN  /\ HeldQty(positions', s) = e + q
            /\ realized_pnl' = RAdd(realized_pnl, RefRealized(e, avg, q, p))
            /\ (RefExtends(e, q) /\ e + q # 0) =>
                  positions'[s].average_cost = RefWeightedAverage(e, avg, q, p)
            /\ RefPartialClose(e, q) => positions'[s].average_cost = avg
            /\ (cash = 100000 /\ positions = <<>> /\ s = "SPY" /\ q = 10 /\ p = 100) =>
                  /\ cash' = 99000
                  /\ positions' = [x \in {"SPY"} |-> [quantity |-> 10, average_cost |-> RInt(100)]]
            /\ (/\ cash = 99000 /\ realized_pnl = RInt(0)
                /\ positions = [x \in {"SPY"} |-> [quantity |-> 10, average_cost |-> RInt(100)]]
                /\ s = "SPY" /\ q = -5 /\ p = 110) =>
                  /\ cash' = 99550
                  /\ realized_pnl' = RInt(50)
                  /\ positions' = [x \in {"SPY"} |-> [quantity |-> 5, average_cost |-> RInt(100)]]
      ]_vars

C6_Witness ==
    /\ ~loaded
    /\ nOps = 2
    /\ cash = 99550
    /\ realized_pnl = RInt(50)
    /\ positions = [x \in {"SPY"} |-> [quantity |-> 5, average_cost |-> RInt(100)]]

\* C7: in every reachable ledger state no position is stored with quantity 0.
C7_NoZeroPosition == \A s \in DOMAIN positions : positions[s].quantity # 0

----------------------------------------------------------------------------
(* Claims about the message bus, checked under SpecBus *)

LogIndices == 1..Len(log)

\* the subscriptions invoked for envelope e between the log positions i and j
CalledSubs(e, i, j) ==
    LET part  == SubSeq(log, i + 1, j - 1)
        calls == SelectSeq(part, LAMBDA x : x.t = "call" /\ x.env = e)
    IN  [k \in 1..Len(calls) |-> calls[k].sub]

\* the envelopes delivered to subscription s between the log positions i and j
DeliveredEnvs(s, i, j) ==
    LET part  == SubSeq(log, i + 1, j - 1)
        calls == SelectSeq(part, LAMBDA x : x.t = "call" /\ x.sub = s)
    IN  [k \in 1..Len(calls) |-> calls[k].env]

SeqRange(q) == {q[k] : k \in 1..Len(q)}

\* where the publish logged at position i ended: its return, or the first
\* exception after i (an exception unwinds every fan-out in flight)
PublishEnd(i) ==
    CHOOSE j \in (i + 1)..Len(log) :
        /\ (log[j].t = "ret" /\ log[j].env = log[i].env) \/ log[j].t = "raise"
        /\ \A k \in (i + 1)..(j - 1) :
              ~((log[k].t = "ret" /\ log[k].env = log[i].env) \/ log[k].t = "raise")

UnsubscribedWithin(s, i, j) ==
    \E u \in (i + 1)..(j - 1) : log[u].t = "unsub" /\ log[u].sub = s

\* C8: subscribe with replay_last = k on a bus whose history holds m >= k
\* envelopes matching the filter delivers to the new handler, before it returns,
\* exactly the last k matching envelopes in publish order.
C8_ReplayLastKMatching ==
    \A i \in LogIndices, j \in LogIndices :
        (/\ log[i].t = "sub" /\ log[i].env > 0 /\ log[i].x.m >= log[i].env
         /\ j > i /\ log[j].t = "subret" /\ log[j].sub = log[i].sub)
        => DeliveredEnvs(log[i].sub, i, j) = log[i].x.ids

\* C9 as stated: every subscription that is registered, active and matching when
\* the envelope is appended has its handler invoked exactly once, in registration
\* order, before the publish ends, and no other handler is invoked.
C9_EveryMatchingInvoked ==
    \A i \in LogIndices :
        log[i].t = "pub" => CalledSubs(log[i].env, i, PublishEnd(i)) = log[i].x

\* C9 amended: publish invokes, in registration order and exactly once each, the
\* handlers of the subscriptions that were registered, active and matching when
\* the envelope was appended and have not been unsubscribed before their turn,
\* up to and including the first handler that raises; it returns only after all
\* of them have returned; no other subscription is invoked for the envelope.
C9_PublishFanOut ==
    \A i \in LogIndices :
        log[i].t = "pub" =>
            LET e        == log[i].env
                j        == PublishEnd(i)
                expected == log[i].x
                called   == CalledSubs(e, i, j)
                upto     == IF log[j].t = "ret" THEN Len(expected)
                            ELSE CHOOSE p \in 1..Len(expected) :
                                    expected[p] = called[Len(called)]
            IN  /\ called = SelectSeq(expected, LAMBDA s : s \in SeqRange(called))
                /\ \A p \in 1..upto :
                      expected[p] \in SeqRange(called) \/ UnsubscribedWithin(expected[p], i, j)
                /\ \A k \in (i + 1)..(j - 1) :
                      (log[k].t = "call" /\ log[k].env = e)
                          => ~UnsubscribedWithin(log[k].sub, i, k)
                /\ \A k \in LogIndices :
                      (log[k].t = "call" /\ log[k].env = e /\ (k < i \/ k > j))
                          => \E a \in 1..(k - 1) :
                                /\ log[a].t = "sub" /\ log[a].sub = log[k].sub
                                /\ \A b \in (a + 1)..(k - 1) :
                                      ~(log[b].t = "subret" /\ log[b].sub = log[k].sub)

\* a fan-out over two served subscriptions that returned after the first handler
\* had unsubscribed the second
C9_Witness ==
    \E i \in LogIndices :
        /\ log[i].t = "pub" /\ Len(log[i].x) = 2
        /\ log[PublishEnd(i)].t = "ret"
        /\ CalledSubs(log[i].env, i, PublishEnd(i)) = <<log[i].x[1]>>
        /\ UnsubscribedWithin(log[i].x[2], i, PublishEnd(i))

\* C10: every subscriber receives envelopes in the order in which they were
\* appended to the history (envelope numbers grow in append order).
C10_OrderedDelivery ==
    \A s \in 1..Len(subObjs) :
        LET got == DeliveredEnvs(s, 0, Len(log) + 1)
        IN  \A a \in 1..Len(got), b \in 1..Len(got) : a < b => got[a] < got[b]

\* C11: once unsubscribe(id) has returned, the handler of that subscription is
\* never invoked again, neither by a later publish nor by a fan-out that is
\* already in flight with a subscriber list copied before the unsubscribe.
\* (An unsubscribe of an id that no subscription has yet is not one of that
\* subscription.)
C11_NoCallAfterUnsubscribe ==
    \A i \in 1..Len(log) :
        (log[i].t = "unsub" /\ \E k \in 1..(i - 1) : log[k].t = "sub" /\ log[k].sub = log[i].sub)
            => \A j \in (i + 1)..Len(log) : log[j].t = "call" => log[j].sub # log[i].sub

----------------------------------------------------------------------------
(* Claims about the runtime and its kill switch, checked under Spec *)

\* health()["kill_switch"]["engaged"]
Engaged == kill_switch_reason # None

\* the envelope with number id: the runtime's bus retains 512 envelopes, more
\* than a run of the model publishes, so the number is the place in the history
Published(id) == history[id]

\* the places of the log where the runtime's kill handler was entered
KillCalls ==
    {k \in 1..Len(log) : log[k].t = "call" /\ subObjs[log[k].sub].handler.kind = "kill_signal"}

\* the reason a kill event carries: its reason field if that is a non-empty
\* string, "unspecified" otherwise
ReasonOf(payload) ==
    IF IsStr(Get(payload, "reason")) /\ Get(payload, "reason").s # ""
    THEN Get(payload, "reason")
    ELSE Str("unspecified")

\* the first kill event the runtime handled
FirstKill == Published(log[CHOOSE k \in KillCalls : \A j \in KillCalls : k <= j].env)

\* C1: once an event on risk.kill_switch, compliance.kill_switch or
\* runtime.kill_switch has been handled, the kill switch is engaged in every
\* later state with the reason and the trigger of the first such event: a later
\* kill event changes nothing and no step takes the switch from engaged to clear.
C1_KillSwitchLatches ==
    /\ [](KillCalls # {} =>
            /\ Engaged
            /\ kill_switch_reason = ReasonOf(FirstKill.payload)
            /\ kill_switch_trigger = Str(FirstKill.topic))
    /\ [][Engaged => UNCHANGED <<kill_switch_reason, kill_switch_trigger>>]_vars

\* the handler has been entered for two kill events of different topics
C1_Witness ==
    /\ Engaged
    /\ \E i \in KillCalls, j \in KillCalls :
          i < j /\ Published(log[i].env).topic # Published(log[j].env).topic

ApprovalTopics == {"risk.approval", "compliance.approval", "execution.fill"}

\* the envelopes a caller outside the stages published
External == {log[k].env : k \in {k \in 1..Len(log) : log[k].t = "external"}}

\* C2: once the kill switch is engaged, no risk.approval, compliance.approval or
\* execution.fill envelope is published any more, whatever is published on the
\* bus afterwards and including the rest of the tick in which the switch engaged.
\* Stated for the envelopes the stages publish themselves: what an outside caller
\* puts on the bus under one of these topics is not counted.
C2_NoApprovalAfterEngagement ==
    \A i \in 1..Len(log) :
        log[i].t = "engage" =>
            \A j \in (i + 1)..Len(log) :
                (log[j].t = "pub" /\ log[j].env \notin External) =>
                    Published(log[j].env).topic \notin ApprovalTopics

\* the entries a step appends to the log
Appended == SubSeq(log', Len(log) + 1, Len(log'))

\* C3: while the kill switch is engaged, a tick request (run_once or a pass of
\* the loop) invokes no stage's tick hook, leaves tick_count unchanged and raises
\* no error.
C3_TickWhileEngagedIsNoOp ==
    [][(Engaged /\ nTick' # nTick) =>
          /\ tick_count' = tick_count
          /\ \A k \in 1..Len(Appended) : Appended[k].t \notin {"tick", "raise"}
          /\ Appended # <<>> /\ Appended[Len(Appended)].t = "skip"]_vars

\* a tick request has been made while the switch was engaged, after a tick that ran
C3_Witness ==
    /\ Engaged
    /\ tick_count > 0
    /\ \E k \in 1..Len(log) : log[k].t = "skip"

----------------------------------------------------------------------------
(* Claims about the compliance gate (SpecCompliance) *)

\* the step is a publish of a risk approval that has a symbol, a price, a
\* quantity and an id of the types the risk engine gives them
ApprovalStep ==
    /\ nExt' = nExt + 1
    /\ Handled.topic = "risk.approval"
    /\ {"proposal_id", "symbol", "price", "quantity"} \subseteq DOMAIN Handled.payload
    /\ Handled.payload.symbol.t = "str"
    /\ Handled.payload.price.t = "num"
    /\ Handled.payload.quantity.t = "num"

\* the symbol of the approval is on the restricted list, in any case
OnRestrictedList == Handled.payload.symbol.s \in {"TSLA", "tsla"}

\* the strings of a field: the field itself or the items of a list
Words(v) ==
    IF v.t = "str" THEN {v.s}
    ELSE IF v.t = "list" THEN {v.l[i].s : i \in 1..Len(v.l)}
    ELSE {}

\* a scanned text field of the approval holds a prohibited keyword
NamesProhibitedTactic ==
    \E f \in {"tactic", "strategy", "strategy_tags", "notes", "thesis", "rationale"}
               \cap DOMAIN Handled.payload :
        Words(Handled.payload[f]) \cap {"Spoofing", "insider tip"} # {}

\* an insider-indicator flag of the approval is true
FlagsInsider ==
    \E f \in {"insider_signal", "mnpi_flag", "material_non_public"} \cap DOMAIN Handled.payload :
        Handled.payload[f] = Num(RInt(1))

\* the gate writes an entry of kind t for a rejection during the step
Rejected(t) ==
    \E i \in (Len(log) + 1)..Len(log') :
        /\ log'[i].t = t
        /\ log'[i].x.action = "compliance_reject"

CriticalAlert ==
    \E i \in (Len(log) + 1)..Len(log') :
        /\ log'[i].t = "alert"
        /\ log'[i].x.action = "compliance_reject"
        /\ log'[i].x.severity = "critical"

CurrentQty ==
    IF Handled.payload.symbol.s \in DOMAIN positions
    THEN positions[Handled.payload.symbol.s].quantity
    ELSE 0

\* current_qty + qty
ProjectedHolding == RAdd(RInt(CurrentQty), NumOf(Handled.payload.quantity))

RECURSIVE BookValue(_)
BookValue(S) ==
    IF S = {} THEN RInt(0)
    ELSE LET s == CHOOSE x \in S : TRUE
         IN  RAdd(RMul(RInt(positions[s].quantity), positions[s].average_cost),
                  BookValue(S \ {s}))

\* the net asset value of the ledger: its cash plus the value of its positions,
\* each at the only price the ledger has for it, its average cost
NetAssetValue == RAdd(RInt(cash), BookValue(DOMAIN positions))

\* |current_qty + qty| * price / max(NAV, 1)
Concentration ==
    RDiv(RMul(RAbs(ProjectedHolding), NumOf(Handled.payload.price)),
         RMax(NetAssetValue, RInt(1)))

\* C22: a non-restricted, non-prohibited risk-approved proposal is approved
\* exactly when |current_qty + qty| * price / max(NAV, 1) <= max_position_pct
\* and rejected exactly when it is above; an approval carries
\* projected_quantity = current_qty + qty.
C22_ConcentrationLimit ==
    [][(ApprovalStep /\ ~OnRestrictedList /\ ~NamesProhibitedTactic /\ ~FlagsInsider) =>
          /\ NewEnvelopes("compliance.approval") # {}
                <=> RLe(Concentration, Rat(2, 10))
          /\ (Rejected("audit") /\ Rejected("alert"))
                <=> RLt(Rat(2, 10), Concentration)
          /\ \A j \in NewEnvelopes("compliance.approval") :
                history'[j].payload.projected_quantity = Num(ProjectedHolding)]_vars

\* C23: a risk-approved proposal whose symbol is on the restricted list is
\* rejected whatever its quantity, its price and its other fields: it gets no
\* compliance.approval and no execution.fill, the ledger is unchanged, and the
\* rejection is audited and alerted.
C23_RestrictedSymbolAlwaysRejected ==
    [][(ApprovalStep /\ OnRestrictedList) =>
          /\ NewEnvelopes("compliance.approval") = {}
          /\ NewEnvelopes("execution.fill") = {}
          /\ cash' = cash
          /\ positions' = positions
          /\ realized_pnl' = realized_pnl
          /\ Rejected("audit")
          /\ Rejected("alert")]_vars

C23_Witness ==
    /\ \E j \in 1..Len(history) :
          /\ history[j].topic = "risk.approval"
          /\ history[j].payload.symbol = Str("tsla")
          /\ history[j].payload.quantity = Num(RInt(1000))
    /\ \E i \in 1..Len(log) :
          /\ log[i].t = "alert"
          /\ log[i].x.action = "compliance_reject"
          /\ log[i].x.payload.reason = Str("restricted_symbol")
          /\ log[i].x.payload.symbol = Str("TSLA")

----------------------------------------------------------------------------
(* Claims about the whole pipeline (Spec) *)

\* the consensus proposals of the council in the history of the bus
ConsensusProposals ==
    {i \in 1..Len(history) :
        /\ history[i].topic = "quant.proposal"
        /\ "strategies" \in DOMAIN history[i].payload}

\* the fills published for consensus proposal i
FillsOf(i) ==
    {j \in 1..Len(history) :
        /\ history[j].topic = "execution.fill"
        /\ history[j].payload.proposal_id = history[i].payload.proposal_id}

\* the ledger as a fill reports it for a symbol
LedgerReport(c, pnl, pos, symbol) ==
    Dict([cash |-> Num(RInt(c)),
          realized_pnl |-> Num(pnl),
          position_quantity |-> Num(RInt(IF symbol \in DOMAIN pos
                                         THEN pos[symbol].quantity ELSE 0))])

\* the one fill published during the step reports the ledger the step leaves
FillReportsLedger ==
    \A j \in NewEnvelopes("execution.fill") :
        Cardinality(NewEnvelopes("execution.fill")) = 1
            => history'[j].payload.portfolio
                   = LedgerReport(cash', realized_pnl', positions', history'[j].payload.symbol.s)

\* C24: every execution.fill published for a consensus proposal that passed
\* risk and compliance carries the strategies that contributed to the
\* quant.proposal of the same proposal_id, and its portfolio field is the
\* result of the ledger fill.
C24_FillCarriesAttribution ==
    /\ [](\A i \in ConsensusProposals : \A j \in FillsOf(i) :
             history[j].payload.strategies = history[i].payload.strategies)
    /\ [][FillReportsLedger]_vars

\* the consensus proposals published during the step that end in a fill during
\* the step
NewlyFilled ==
    {i \in NewEnvelopes("quant.proposal") :
        /\ "strategies" \in DOMAIN history'[i].payload
        /\ \E j \in NewEnvelopes("execution.fill") :
               history'[j].payload.proposal_id = history'[i].payload.proposal_id}

\* the strategy contributed to consensus proposal i
Contributes(i, name) ==
    \E k \in 1..Len(history'[i].payload.strategies.l) :
        history'[i].payload.strategies.l[k].m.strategy = Str(name)

\* the trades the tracker counts for a strategy
TradesOf(tr, name) ==
    IF name \in DOMAIN tr.strategies THEN tr.strategies[name].trades ELSE 0

\* C25: when a directive runs through council, risk, compliance and execution
\* and ends in a fill, then once its publish has returned the tracker counts
\* one more trade for every strategy that contributed to the consensus
\* proposal, and the weights of the council are those of the tracker.
C25_FillFeedsBackToTracker ==
    [][\A i \in NewlyFilled : \A name \in {"momentum", "value", "macro"} :
          Contributes(i, name) =>
              /\ TradesOf(tracker', name)
                     = TradesOf(tracker, name)
                           + Cardinality({h \in NewlyFilled : Contributes(h, name)})
              /\ \A a \in 1..Len(agentObjs') :
                    agentObjs'[a].cls = "quant" =>
                        agentObjs'[a].strategy_weights[name]
                            = IF name \in DOMAIN tracker'.strategies
                              THEN tracker'.strategies[name].weight
                              ELSE RInt(1)]_vars

\* the entries the step adds to the log
NewLog == SubSeq(log', Len(log) + 1, Len(log'))

IsTick(e) == e.t = "tick"

\* the stages whose tick hook the step invoked, in the order of the calls
TickedStages == [k \in 1..Len(SelectSeq(NewLog, IsTick)) |-> SelectSeq(NewLog, IsTick)[k].sub]

\* the step ran the loop over the stages
Iterated == \E k \in 1..Len(NewLog) : NewLog[k].t = "iteration"

\* an exception left a stage during the step
StageRaised == \E k \in 1..Len(NewLog) : NewLog[k].t = "raise"

\* an exception left a stage during an earlier tick
RaisedInEarlierTick ==
    \E i, j \in 1..Len(log) :
        /\ i < j
        /\ log[i].t = "iteration"
        /\ log[j].t = "raise"
        /\ \A k \in i..j : log[k].t # "ticked"

\* C26: when the tick hook of a stage raises, the exception does not leave the
\* tick: every stage has its tick hook invoked in that tick, the later ones
\* included, in pipeline order, tick_count grows by one, and the next tick
\* (the kill switch not being engaged) runs all the stages again.
C26_TickSurvivesStageException ==
    [][/\ (Iterated /\ StageRaised) =>
             /\ TickedStages = agents'
             /\ tick_count' = tick_count + 1
       /\ (nTick' = nTick + 1 /\ RaisedInEarlierTick /\ kill_switch_reason = None) =>
             /\ Iterated
             /\ TickedStages = agents'
             /\ tick_count' = tick_count + 1]_vars

\* the director raised in one tick, the four stages after it were ticked in
\* that tick, and a second tick ran
C26_Witness ==
    /\ tick_count = 2
    /\ Len(agents) = 5
    /\ \E i, j \in 1..Len(log) :
          /\ i < j
          /\ log[i].t = "raise"
          /\ log[i].sub = agents[1]
          /\ log[j].t = "iteration"
          /\ \A k \in 2..5 : \E m \in (i + 1)..(j - 1) :
                /\ log[m].t = "tick"
                /\ log[m].sub = agents[k]

----------------------------------------------------------------------------
(* Claims about the handlers of the stages (SpecStages) *)

\* the fields a stage requires of the events of a topic, and the type of each
RequiredFields(topic) ==
    CASE topic \in {"director.directive", "market.snapshot"} ->
            [symbol |-> "str", latest_close |-> "num"]
      [] topic \in {"quant.proposal", "risk.approval", "compliance.approval"} ->
            [symbol |-> "str", price |-> "num", quantity |-> "num", proposal_id |-> "str"]
      [] OTHER -> <<>>

\* a required field of the event is missing or of another type
Malformed(event) ==
    \E f \in DOMAIN RequiredFields(event.topic) :
        \/ f \notin DOMAIN event.payload
        \/ event.payload[f].t # RequiredFields(event.topic)[f]

\* C27: an event whose required field (symbol, price, quantity or proposal_id,
\* as the stage requires) is missing or of the wrong type is silently dropped by
\* the handler of its stage: nothing is published, no audit or alert is
\* written, the ledger is unchanged and nothing is raised.
C27_MalformedEventIsDropped ==
    [][(nExt' = nExt + 1 /\ Malformed(Handled)) =>
          /\ Len(history') = Len(history) + 1
          /\ \A i \in (Len(log) + 1)..Len(log') : log'[i].t \notin {"audit", "alert", "raise"}
          /\ cash' = cash
          /\ positions' = positions
          /\ realized_pnl' = realized_pnl]_vars

----------------------------------------------------------------------------
(* Claims about the locks (SpecLocks) *)

\* the thread is about to invoke a handler
AtInvoke(t) == Busy(t) /\ Current(t).do = "invoke"

\* the thread is about to enter publish
AtPublish(t) == Busy(t) /\ Current(t).do = "enter" /\ Current(t).x = "publish"

\* a thread is inside a call and no thread can execute its next statement
Deadlocked ==
    /\ \E t \in 1..LockThreads : Busy(t)
    /\ \A t \in 1..LockThreads : ~CanStep(t)

\* C28: no handler is invoked while the invoking thread holds the lock of the
\* bus; the lock of the ledger and the lock of the tracker are not held by a
\* thread that enters publish or invokes a handler; and no interleaving of
\* publish, subscribe, unsubscribe, apply_fill and snapshot calls is deadlocked.
C28_NoLockAcrossHandlers ==
    /\ \A t \in 1..LockThreads : AtInvoke(t) => inflight[t].held["bus"] = 0
    /\ \A t \in 1..LockThreads :
          (AtInvoke(t) \/ AtPublish(t)) =>
              /\ inflight[t].held["ledger"] = 0
              /\ inflight[t].held["tracker"] = 0
    /\ ~Deadlocked

\* a thread is about to invoke the handler of a nested publish while the other
\* thread holds the lock of the bus
C28_Witness ==
    \E t, u \in 1..LockThreads :
        /\ t # u
        /\ AtInvoke(t)
        /\ inflight[t].pc > 10
        /\ inflight[u].held["bus"] = 1

----------------------------------------------------------------------------
(* Claims about the tracker (SpecTracker) *)

\* C29: after any sequence of record_fill and apply_feedback calls on a tracker
\* that started empty, the weight of every tracked strategy is in [0.1, 2.5].
C29_WeightWithinBounds ==
    \A name \in DOMAIN tracker.strategies :
        /\ RLe(Rat(1, 10), tracker.strategies[name].weight)
        /\ RLe(tracker.strategies[name].weight, Rat(25, 10))

\* both ends are reached: a fill whose confidence is above the range and a
\* feedback below it, on two strategies that have trades
C29_Witness ==
    /\ DOMAIN tracker.strategies = {"momentum", "value"}
    /\ tracker.strategies["momentum"].weight = Rat(1, 10)
    /\ tracker.strategies["momentum"].penalties = 1
    /\ tracker.strategies["value"].weight = Rat(25, 10)
    /\ tracker.strategies["value"].trades = 1

----------------------------------------------------------------------------
(* Claims about wildcard subscriptions (SpecBus) *)

\* the subscription listens to every topic: topics None or containing "*"
Wildcard(s) == subObjs[s].topics.none \/ "*" \in subObjs[s].topics.names

\* the publishes logged after subscription s was registered
PublishedAfter(s) ==
    {i \in LogIndices :
        /\ log[i].t = "pub"
        /\ \E a \in 1..(i - 1) : log[a].t = "sub" /\ log[a].sub = s}

\* how many times the handler of s was invoked for envelope e
Receipts(s, e) ==
    Cardinality({k \in LogIndices : log[k].t = "call" /\ log[k].sub = s /\ log[k].env = e})

----------------------------------------------------------------------------
(* Claims about the replay history, checked under SpecBus *)

\* the number of envelopes published so far
PublishedCount == nextEnv - 1

\* the history holds at most max_history envelopes
HistoryBounded == Len(history) <= max_history

\* the retained envelopes are the most recently published ones, oldest first
HistoryIsLatest ==
    /\ Len(history) = Min(PublishedCount, max_history)
    /\ \A i \in 1..Len(history) : history[i].id = PublishedCount - Len(history) + i

\* the last limit of the retained envelopes, in their order
LastOfHistory(limit) ==
    [i \in 1..Min(limit, Len(history)) |->
        history[Len(history) - Min(limit, Len(history)) + i]]

HistoryReturnsLast(limit) == BusHistory(history, limit) = LastOfHistory(limit)

\* C31: after any sequence of publishes the bus history holds at most max_history
\* envelopes, they are exactly the most recently published ones in publish order
\* (on overflow the oldest is dropped), and history(limit) returns the last limit
\* of them in that order.
C31_HistoryIsMostRecent ==
    /\ HistoryBounded
    /\ HistoryIsLatest
    /\ \A limit \in HistoryLimits : HistoryReturnsLast(limit)

\* the part of C31 that the bus keeps: the bound, the order, and history(limit)
\* for the limits above 0
C31_HistoryOfPositiveLimit ==
    /\ HistoryBounded
    /\ HistoryIsLatest
    /\ \A limit \in HistoryLimits \ {0} : HistoryReturnsLast(limit)

\* the history has overflowed and a limit cuts into it
C31_Overflowed ==
    /\ PublishedCount > max_history
    /\ Len(history) = max_history
    /\ Len(BusHistory(history, 2)) = 2
    /\ BusHistory(history, 2)[2].id = PublishedCount

----------------------------------------------------------------------------
(* Claims about handler exceptions, checked under SpecBus *)

\* the publish logged at position i was left by an exception
LeftByException(i) == log[i].t = "pub" /\ log[PublishEnd(i)].t = "raise"

\* what the log shows next when the callers of the bus go on: the next call made
\* from outside, and no step of a fan-out
CallFromOutside(k) == log[k].t \in {"pub", "sub", "unsub"}

InHistory(e) == \E h \in 1..Len(history) : history[h].id = e

\* the subscriptions served for the publish at i that come after the last one
\* invoked for its envelope before the publish ended at j
ServedAfterLastCalled(i, j) ==
    LET called == CalledSubs(log[i].env, i, j)
        last   == CHOOSE p \in 1..Len(log[i].x) : log[i].x[p] = called[Len(called)]
    IN  {log[i].x[p] : p \in (last + 1)..Len(log[i].x)}

\* C32: a handler that raises during a fan-out is not caught by the bus: the
\* exception propagates to the caller of publish (the publish never returns, and
\* nothing of its fan-out follows the exception), the subscribers registered after
\* the raising one are never invoked for that envelope, and the envelope is in the
\* history when the exception reaches the caller.
C32_HandlerExceptionPropagates ==
    \A i \in LogIndices :
        LeftByException(i) =>
            /\ \A k \in LogIndices : ~(log[k].t = "ret" /\ log[k].env = log[i].env)
            /\ PublishEnd(i) < Len(log) => CallFromOutside(PublishEnd(i) + 1)
            /\ \A k \in LogIndices :
                  (log[k].t = "call" /\ log[k].env = log[i].env)
                      => log[k].sub \notin ServedAfterLastCalled(i, PublishEnd(i))
            /\ PublishEnd(i) = Len(log) => InHistory(log[i].env)

\* an exception has just left a publish that had a second subscriber to serve
C32_Witness ==
    /\ Len(log) > 0
    /\ log[Len(log)].t = "raise"
    /\ \E i \in LogIndices :
          /\ LeftByException(i)
          /\ PublishEnd(i) = Len(log)
          /\ log[Len(log)].env = log[i].env
          /\ Len(log[i].x) = 2
          /\ log[Len(log)].sub = log[i].x[1]
          /\ ServedAfterLastCalled(i, Len(log)) = {log[i].x[2]}
          /\ InHistory(log[i].env)

----------------------------------------------------------------------------
(* Claims about the book value of the ledger, checked under SpecLedger *)

\* initial_cash + realized_pnl
PaidInPlusRealized == RAdd(RInt(InitialCash), realized_pnl)

\* the fill of this step takes the position through zero to the other side
FlipsPosition ==
    /\ HeldQty(positions, lastOp'.symbol) # 0
    /\ SignOf(HeldQty(positions, lastOp'.symbol)) = -SignOf(lastOp'.quantity)
    /\ Abs(lastOp'.quantity) > Abs(HeldQty(positions, lastOp'.symbol))

RECURSIVE BookOf(_, _, _)
\* c plus the sum of quantity * average_cost over the symbols S of the table pos
BookOf(c, pos, S) ==
    IF S = {} THEN RInt(c)
    ELSE LET s == CHOOSE x \in S : TRUE
         IN  RAdd(RMul(RInt(pos[s].quantity), pos[s].average_cost), BookOf(c, pos, S \ {s}))

\* C33: after any sequence of successful fills, flips from long to short and from
\* short to long included, cash plus the sum over the open positions of
\* quantity * average_cost equals initial_cash plus realized_pnl.
C33_BookValueConserved ==
    ~loaded => BookOf(cash, positions, DOMAIN positions) = PaidInPlusRealized

\* the part of C33 that the ledger keeps: a fill that does not flip the position
\* changes cash + sum(quantity * average_cost) by what it adds to realized_pnl
C33_ConservedWithoutFlip ==
    [][(FillDone /\ ~FlipsPosition) =>
          RSub(BookOf(cash', positions', DOMAIN positions'), realized_pnl')
              = RSub(BookOf(cash, positions, DOMAIN positions), realized_pnl)]_vars

\* a fill has closed part of a position, at a profit, without flipping it
C33_PartialClose ==
    /\ ~loaded
    /\ realized_pnl = RInt(50)
    /\ positions = [x \in {"SPY"} |-> [quantity |-> 5, average_cost |-> RInt(100)]]
    /\ BookOf(cash, positions, DOMAIN positions) = PaidInPlusRealized

----------------------------------------------------------------------------
(* Claims about the frame of the ledger, checked under SpecPipeline *)

LedgerSame == cash' = cash /\ realized_pnl' = realized_pnl /\ positions' = positions

NewLogIndices == (Len(log) + 1)..Len(log')

\* the topic of the envelope numbered e
TopicOf(e) == history'[CHOOSE h \in 1..Len(history') : history'[h].id = e].topic

\* during the step the execution stage's handler is invoked for a
\* compliance.approval envelope
ExecutionHandlesApproval ==
    \E k \in NewLogIndices :
        /\ log'[k].t = "call"
        /\ subObjs'[log'[k].sub].handler.kind = "approval"
        /\ agentObjs'[subObjs'[log'[k].sub].handler.agent].cls = "execution"
        /\ TopicOf(log'[k].env) = "compliance.approval"

\* a stage writes a rejection of the given kind to the audit trail during the step
RejectedBy(action) ==
    \E k \in NewLogIndices : log'[k].t = "audit" /\ log'[k].x.action = action

\* the event ends in a stage that returns without a word: no fill is published,
\* nothing is audited or alerted, nothing is raised
DroppedByAStage ==
    /\ NewEnvelopes("execution.fill") = {}
    /\ \A k \in NewLogIndices : log'[k].t \notin {"audit", "alert", "raise"}

ProposalTopics == {"quant.proposal", "risk.approval", "compliance.approval"}

----------------------------------------------------------------------------
(* Claims about gains and the hard stop, checked under SpecRisk *)

\* the NAV the snapshot of the step shows is higher than the NAV observed before it
NavGain ==
    /\ agentObjs[1].nav_history # <<>>
    /\ RLt(PreviousNav, NavShown)

\* C35: the NAV hard stop fires only on losses: a market snapshot after which the
\* recomputed NAV is higher than the previous NAV observation, by any amount,
\* never causes a risk.kill_switch event.
C35_NoHardStopOnGain ==
    [][(SnapshotStep /\ NavGain) => NewEnvelopes("risk.kill_switch") = {}]_vars

----------------------------------------------------------------------------
(* Claims about a replay that races with publishes, checked under SpecBusRace *)

\* the filter of subscription s admits the topic of envelope e (the history of
\* SpecBusRace keeps every envelope: e is the place of the envelope in it)
Admits(s, e) ==
    \/ subObjs[s].topics.none
    \/ subObjs[s].topics.names \cap {"*", history[e].topic} # {}

\* the envelopes published before and after position i of the log
PublishedBefore(i) == {log[k].env : k \in {j \in 1..(i - 1) : log[j].t = "pub"}}

PublishedSince(i) == {log[k].env : k \in {j \in (i + 1)..Len(log) : log[j].t = "pub"}}

\* the envelopes the subscription registered at position i of the log is due: the
\* matching ones among the last replay_last of the history at its registration,
\* and the matching ones published after it
DueByReplay(i) ==
    {e \in PublishedBefore(i) :
        /\ e > Cardinality(PublishedBefore(i)) - log[i].env
        /\ Admits(log[i].sub, e)}

DueByFanOut(i) == {e \in PublishedSince(i) : Admits(log[i].sub, e)}

\* how often the handler of subscription s was invoked for envelope e
Deliveries(s, e) ==
    Cardinality({k \in 1..Len(log) : log[k].t = "call" /\ log[k].sub = s /\ log[k].env = e})

\* subscribe has returned for s; publish has returned for e
SubscribeReturned(s) == \E k \in 1..Len(log) : log[k].t = "subret" /\ log[k].sub = s

PublishReturned(e) == \E k \in 1..Len(log) : log[k].t = "ret" /\ log[k].env = e

\* C36: when publish runs concurrently with subscribe(replay_last = N), every
\* matching envelope that is among the last N of the history at registration or
\* is published after registration is delivered to the new handler exactly once
\* (by the time the subscribe, respectively the publish, has returned), never
\* twice, and no other envelope is delivered to it.
C36_ReplayRaceExactlyOnce ==
    \A i \in 1..Len(log) :
        log[i].t = "sub" =>
            /\ \A e \in 1..(nextEnv - 1) :
                  /\ Deliveries(log[i].sub, e) <= 1
                  /\ Deliveries(log[i].sub, e) = 1 => e \in DueByReplay(i) \cup DueByFanOut(i)
            /\ SubscribeReturned(log[i].sub) =>
                  \A e \in DueByReplay(i) : Deliveries(log[i].sub, e) = 1
            /\ \A e \in DueByFanOut(i) :
                  PublishReturned(e) => Deliveries(log[i].sub, e) = 1

\* a subscribe with replay_last = 1 found two matching envelopes in the history,
\* a third was published while its replay was under way, and both calls have
\* returned: the handler has had the second and the third, the third first
C36_Witness ==
    /\ inflight = NoCalls
    /\ nextEnv = 4
    /\ \E i \in 1..Len(log) :
          /\ log[i].t = "sub" /\ log[i].env = 1
          /\ DueByReplay(i) = {2}
          /\ DueByFanOut(i) = {3}
          /\ \E a, b \in 1..Len(log) :
                /\ a < b
                /\ log[a].t = "call" /\ log[a].env = 3
                /\ log[b].t = "call" /\ log[b].env = 2

----------------------------------------------------------------------------
(* Claims about the depth of the call trees, checked under SpecPipeline *)

\* the publishes under way when entry k is written to the log: those that have
\* neither returned nor been left by an exception
OpenAt(k) ==
    {j \in 1..(k - 1) :
        /\ log[j].t = "pub"
        /\ \A m \in (j + 1)..(k - 1) :
              ~((log[m].t = "ret" /\ log[m].env = log[j].env) \/ log[m].t = "raise")}

\* the subscription whose handler is running for the open publish j at entry k
RunningFor(j, k) ==
    log[CHOOSE c \in (j + 1)..(k - 1) :
            /\ log[c].t = "call" /\ log[c].env = log[j].env
            /\ \A m \in (c + 1)..(k - 1) : ~(log[m].t = "call" /\ log[m].env = log[j].env)].sub

\* the subscriptions of the object that owns subscription s: the stage, or the
\* orchestrator for its kill handler
SameOwner(s) ==
    {t \in 1..Len(subObjs) :
        IF "agent" \in DOMAIN subObjs[s].handler
        THEN "agent" \in DOMAIN subObjs[t].handler
                 /\ subObjs[t].handler.agent = subObjs[s].handler.agent
        ELSE t = s}

\* the topics the owner of subscription s consumes
Consumes(s) == UNION {subObjs[t].topics.names : t \in SameOwner(s)}

PubEntries == {k \in 1..Len(log) : log[k].t = "pub"}

\* C37 as stated: no stage publishes, directly or through the stages it triggers,
\* a topic that it consumes.
C37_NoStageFeedsItself ==
    \A k \in PubEntries : \A j \in OpenAt(k) :
        history[log[k].env].topic \notin Consumes(RunningFor(j, k))

\* C37 amended: every publish call tree ends, and no topic is published while a
\* publish of the same topic is under way, so the depth of the re-entrant fan-out
\* never exceeds the number of stages of the pipeline (directive, proposal, risk
\* approval, compliance approval, fill).
C37_CallTreesAreBounded ==
    /\ \A k \in PubEntries :
          /\ \A j \in OpenAt(k) : history[log[j].env].topic # history[log[k].env].topic
          /\ Cardinality(OpenAt(k)) < Len(Pipeline)
    /\ \A j \in PubEntries :
          \E m \in (j + 1)..Len(log) :
              (log[m].t = "ret" /\ log[m].env = log[j].env) \/ log[m].t = "raise"

\* a fill is published four publishes deep, while the council, which consumes
\* fills, is handling the directive at the root of the call tree
C37_Witness ==
    \E k \in PubEntries :
        /\ history[log[k].env].topic = "execution.fill"
        /\ Cardinality(OpenAt(k)) = Len(Pipeline) - 1
        /\ \E j \in OpenAt(k) :
              /\ history[log[j].env].topic = "director.directive"
              /\ "execution.fill" \in Consumes(RunningFor(j, k))

----------------------------------------------------------------------------
(* Claims about orders that the ledger refuses, checked under SpecPipeline *)

\* the step is a publish of an order, with its four fields, whose price is not
\* positive or whose quantity is 0
RefusedOrderStep ==
    /\ nExt' = nExt + 1
    /\ Handled.topic \in ProposalTopics
    /\ {"proposal_id", "symbol", "price", "quantity"} \subseteq DOMAIN Handled.payload
    /\ Handled.payload.symbol.t = "str"
    /\ Handled.payload.price.t = "num"
    /\ Handled.payload.quantity.t = "num"
    /\ Handled.payload.price.n <= 0 \/ Handled.payload.quantity.n = 0

\* an exception leaves the publish of the step
PublishRaises == \E k \in NewLogIndices : log'[k].t = "raise"

\* C38: no proposal with price <= 0 or quantity = 0 published on quant.proposal,
\* risk.approval or compliance.approval crashes a stage: a stage drops or rejects
\* it, and in no case does the ledger's rejection of the fill propagate as an
\* exception out of bus.publish.
C38_RefusedOrderNeverRaises == [][RefusedOrderStep => ~PublishRaises]_vars

\* the part of C38 that the stages keep: such an order changes nothing in the
\* ledger and no fill is published for it
C38_RefusedOrderLeavesLedger ==
    [][RefusedOrderStep => (LedgerSame /\ NewEnvelopes("execution.fill") = {})]_vars

\* the ledger refused the first order; the second one was filled
C38_Refused ==
    /\ \E k \in 1..Len(log) : log[k].t = "raise" /\ log[k].x = "ValueError"
    /\ history[1].topic = "quant.proposal"
    /\ history[1].payload.price.n = 0
    /\ cash = InitialCash - 1000

----------------------------------------------------------------------------
(* Claims about the lifecycle of the runtime, checked under Spec *)

StageNames == {"director", "quant", "risk", "compliance", "execution"}

\* the subscriptions that the bus holds for a stage and a topic: registered,
\* active, of a handler of an object of that stage, naming the topic
StageSubscriptions(name, topic) ==
    {k \in 1..Len(subs) :
        /\ subObjs[subs[k]].active
        /\ "agent" \in DOMAIN subObjs[subs[k]].handler
        /\ agentObjs[subObjs[subs[k]].handler.agent].name = name
        /\ topic \in subObjs[subs[k]].topics.names}

StageTopics ==
    {"director.directive", "execution.fill", "strategy.feedback", "market.snapshot",
     "quant.proposal", "risk.approval", "compliance.approval"}

OneSubscriptionPerTopic ==
    \A name \in StageNames, topic \in StageTopics :
        Cardinality(StageSubscriptions(name, topic)) <= 1

\* the fills that the execution stage writes to the audit trail during the step
ExecutionFills ==
    {k \in NewLogIndices : log'[k].t = "audit" /\ log'[k].x.action = "execution_fill"}

\* the place in the history of the envelope that the step publishes from outside
\* the runtime, if any
FromOutside == IF nExt' = nExt + 1 THEN {Len(history) + 1} ELSE {}

\* C39: for any sequence of lifecycle calls (bootstrap, run_once, start, stop) on
\* one runtime, each stage has at most one active subscription per topic it
\* consumes, so that one compliance.approval envelope results in one ledger fill
\* and one execution.fill event, not more.
C39_OneSubscriptionPerStage ==
    /\ []OneSubscriptionPerTopic
    /\ [][/\ Cardinality(ExecutionFills) <= Cardinality(NewEnvelopes("compliance.approval"))
           /\ Cardinality(NewEnvelopes("execution.fill") \ FromOutside)
                 <= Cardinality(NewEnvelopes("compliance.approval"))]_vars

\* the bus holds an active subscription of the orchestrator's kill handler to
\* the three kill topics
KillHandlerSubscribed ==
    \E k \in 1..Len(subs) :
        /\ subObjs[subs[k]].active
        /\ subObjs[subs[k]].handler.kind = "kill_signal"
        /\ KillTopics \subseteq subObjs[subs[k]].topics.names

\* a kill event has been published
KillEventPublished == \E h \in 1..Len(history) : history[h].topic \in KillTopics

\* the step runs the stages of a tick
TickRunsStages == \E k \in NewLogIndices : log'[k].t = "iteration"

\* a tick would run its stages only with the kill handler subscribed
KillHandlerReady == ~Skips(World) => KillHandlerSubscribed

\* C40: in every state in which a tick can run its stages the orchestrator's
\* kill handler is subscribed to the kill topics; a kill event published from
\* outside engages the kill switch, and no tick runs its stages after a kill
\* event, also after stop() followed by run_once().
C40_KillHandlerAlwaysSubscribed ==
    /\ []KillHandlerReady
    /\ [][(nExt' = nExt + 1 /\ Handled.topic \in KillTopics) => Truthy(kill_switch_reason')]_vars
    /\ [][KillEventPublished => ~TickRunsStages]_vars

====
